---- MODULE Spec2Model ----
(***************************************************************************)
(* State-machine model of the jec_api request decorators.                  *)
(*                                                                         *)
(*   - rate limiter   src/src/jec_api/decorator/ratelimit.py               *)
(*   - response cache src/src/jec_api/decorator/cache.py                   *)
(*   - retry          src/src/jec_api/decorator/retry.py                   *)
(*   - auth           src/src/jec_api/decorator/auth.py                    *)
(*   - version        src/src/jec_api/decorator/version.py                 *)
(*   - deprecated     src/src/jec_api/decorator/deprecated.py              *)
(*   - timeout        src/src/jec_api/decorator/timeout.py                 *)
(*   - route deriver  src/src/jec_api/route.py                             *)
(*                                                                         *)
(* Time is the value of time.time(), counted in clock ticks; one second is *)
(* TicksPerSecond ticks, so that int() truncation of a float number of     *)
(* seconds is a real division here.                                        *)
(***************************************************************************)
EXTENDS Integers, Sequences, FiniteSets, TLC

\* ---------------------------------------------------------------- bounds
MaxLimit == 2
MaxWindow == 2
MaxTime == 5
MaxChecks == 4
TicksPerSecond == 2
MaxTtl == 1
MaxSwr == 1
MaxOps == 2
MaxInvalidates == 2
MaxAttempts == 3
MaxDelay == 2
MaxBackoff == 2
MaxSeconds == 2      \* timeout durations, in ticks
MaxKeyChecks == 3    \* checks made when several handlers share the store
MaxKeyTime == 2      \* clock readings, in ticks, in that case

\* ------------------------------------------------------------- variables
VARIABLES
    now,          \* time.time(), in ticks
    limit,        \* ratelimit(limit=...)
    window,       \* ratelimit(window=...), in seconds
    rl_store,     \* _rate_limit_store: key -> list of timestamps
    rl_log,       \* history: per key, the results of the checks made so far
    t_pc,         \* threads of sync_wrapper: position inside _check_rate_limit
    t_time,       \* per thread: local current_time
    t_kept,       \* per thread: the list the comprehension built, not yet stored
    t_count,      \* per thread: local current_count
    t_allowed,    \* per thread: is_allowed, once returned
    raceFree,     \* history: free slots of the bucket when a race began
    overlap,      \* history: the two threaded checks overlapped
    ttl,          \* cache(ttl=...), in seconds
    swr,          \* cache(stale_while_revalidate=...), in seconds
    cache_errors, \* cache(cache_errors=...)
    c_store,      \* MemoryCacheBackend._store: key -> CacheEntry
    c_task,       \* per request task: its position in _execute_and_cache, its
                  \* locals, and the outcome of the request it served last
    c_writer,     \* history: per key, the query of the request whose
                  \* response the wrapper stored there
    c_ops,        \* number of requests and backend writes begun so far
    c_inv,        \* history: the last invalidate(pattern) call and its result
    c_prev,       \* history: pattern of the invalidate that was the latest
                  \* cache operation, if the latest one was an invalidate
    i_pc,         \* a thread inside MemoryCacheBackend.invalidate
    i_matched,    \* that thread: the list `keys`
    i_pending,    \* that thread: the keys of the list not yet popped
    r_call,       \* one call through the retry wrapper: its configuration,
                  \* its locals and what the caller got
    a_call,       \* one request through the auth wrapper, likewise
    v_call,       \* one request through the version wrapper, likewise
    d_call,       \* one request through the deprecated wrapper, likewise
    t_call,       \* one request through the timeout wrapper, likewise
    v_decl,       \* version(constraint) being applied: the constraint string
                  \* and what the parse at decoration time made of it
    cls           \* a Route subclass being created by RouteMeta.__new__: the
                  \* namespace entries still to visit and cls._endpoints

rlState == <<limit, window, rl_store, rl_log>>
thrVars == <<t_pc, t_time, t_kept, t_count, t_allowed, raceFree, overlap>>
cacheConf == <<ttl, swr, cache_errors>>
cacheVars == <<ttl, swr, cache_errors, c_store, c_writer, c_task, c_ops, c_inv, c_prev>>
invVars == <<i_pc, i_matched, i_pending>>
wrapVars == <<r_call, a_call, v_call>>
laterVars == <<d_call, t_call, v_decl, cls>>
notRL == <<cacheVars, invVars, wrapVars, laterVars>>
notCache == <<rlState, thrVars, wrapVars, laterVars>>
notWrap == <<now, rlState, thrVars, cacheVars, invVars, laterVars>>
vars == <<now, rlState, thrVars, cacheVars, invVars, wrapVars, laterVars>>

\* ------------------------------------------------------------- utilities
Max(a, b) == IF a >= b THEN a ELSE b

RECURSIVE MinOf(_)
MinOf(s) ==
    IF Len(s) = 1 THEN s[1]
    ELSE LET m == MinOf(Tail(s)) IN IF s[1] <= m THEN s[1] ELSE m

\* int(x) for x a number of seconds held as ticks: truncation toward zero
IntSeconds(ticks) ==
    IF ticks >= 0 THEN ticks \div TicksPerSecond
    ELSE -((-ticks) \div TicksPerSecond)

\* ---------------------------------------------------------- rate limiter
Threads == {"t1", "t2"}

WindowTicks == window * TicksPerSecond

\* ratelimit.py:91-94  [ts for ts in bucket if ts > window_start]
PurgeNone(bucket, current_time) == bucket
Purge(bucket, current_time) ==
    SelectSeq(bucket, LAMBDA ts : ts > current_time - WindowTicks)

\* ratelimit.py:99 / 101-105, 112-116
ResetWholeWindow(bucket, current_time) == window
ResetSeconds(bucket, current_time) ==
    IF bucket # <<>>
    THEN IntSeconds(MinOf(bucket) + WindowTicks - current_time)
    ELSE window

\* ratelimit.py:99  the admission test
IsOverLimitOffByOne(current_count) == current_count > limit
IsOverLimit(current_count) == current_count >= limit

\* ratelimit.py:97  remaining = max(0, limit - current_count - 1)
RemainingBeforeRecord(current_count) == Max(0, limit - current_count)
Remaining(current_count) == Max(0, limit - current_count - 1)

\* ratelimit.py:82-118  _check_rate_limit on one bucket at one clock reading:
\* the bucket it leaves and the tuple it returns
CheckRecordsDenied(bucket, current_time) ==
    LET kept == Purge(bucket, current_time)
        recorded == Append(kept, current_time)
    IN  [bucket |-> recorded, allowed |-> ~IsOverLimit(Len(kept)),
         remaining |-> IF IsOverLimit(Len(kept)) THEN 0
                       ELSE Remaining(Len(kept)),
         reset |-> Max(1, ResetSeconds(recorded, current_time))]
CheckRateLimit(bucket, current_time) ==
    LET kept == Purge(bucket, current_time)
        current_count == Len(kept)
        remaining == Remaining(current_count)
    IN  IF IsOverLimit(current_count)
        THEN [bucket |-> kept, allowed |-> FALSE, remaining |-> 0,
              reset |-> Max(1, ResetSeconds(kept, current_time))]
        ELSE LET recorded == Append(kept, current_time)
             IN  [bucket |-> recorded, allowed |-> TRUE, remaining |-> remaining,
                  reset |-> Max(1, ResetSeconds(recorded, current_time))]

ChecksMade ==
    Cardinality(UNION {{<<k, i>> : i \in DOMAIN rl_log[k]} : k \in DOMAIN rl_log})
NoThreadStarted == \A t \in Threads : t_pc[t] = "idle"

\* ------------------------------------------------------ cache: strings
\* A string is a sequence of one-character strings, so that a glob pattern
\* can be matched against a key character by character.
RECURSIVE Join(_, _)
Join(pieces, sep) ==
    IF pieces = <<>> THEN <<>>
    ELSE IF Len(pieces) = 1 THEN pieces[1]
    ELSE pieces[1] \o sep \o Join(Tail(pieces), sep)

\* code points of the characters that occur in query strings and payload keys
Ord(c) ==
    CASE c = "1" -> 49 [] c = "2" -> 50 [] c = "a" -> 97 [] c = "b" -> 98
      [] c = "x" -> 120 [] c = "y" -> 121 [] OTHER -> 0

\* Python's < on str
RECURSIVE StrLess(_, _)
StrLess(u, v) ==
    IF v = <<>> THEN FALSE
    ELSE IF u = <<>> THEN TRUE
    ELSE IF Ord(u[1]) # Ord(v[1]) THEN Ord(u[1]) < Ord(v[1])
    ELSE StrLess(Tail(u), Tail(v))

\* Python's < on (str, str) tuples
PairLess(p, q) == StrLess(p[1], q[1]) \/ (p[1] = q[1] /\ StrLess(p[2], q[2]))

RECURSIVE Insert(_, _)
Insert(p, sorted) ==
    IF sorted = <<>> THEN <<p>>
    ELSE IF PairLess(p, sorted[1]) THEN <<p>> \o sorted
    ELSE <<sorted[1]>> \o Insert(p, Tail(sorted))

\* sorted(items) on a list of pairs
RECURSIVE Sorted(_)
Sorted(items) ==
    IF items = <<>> THEN <<>> ELSE Insert(items[1], Sorted(Tail(items)))

\* str.upper() on the letters of the method names used
Upper(str) ==
    [i \in DOMAIN str |->
        CASE str[i] = "g" -> "G" [] str[i] = "e" -> "E" [] str[i] = "t" -> "T"
          [] OTHER -> str[i]]

\* fnmatch(name, pattern): * any run of characters, ? any one character,
\* every other character itself (the patterns used here have no [ ] class)
RECURSIVE FnMatch(_, _)
FnMatch(name, pattern) ==
    IF pattern = <<>> THEN name = <<>>
    ELSE IF pattern[1] = "*"
         THEN FnMatch(name, Tail(pattern))
              \/ (name # <<>> /\ FnMatch(Tail(name), pattern))
    ELSE IF pattern[1] = "?"
         THEN name # <<>> /\ FnMatch(Tail(name), Tail(pattern))
    ELSE name # <<>> /\ name[1] = pattern[1] /\ FnMatch(Tail(name), Tail(pattern))

\* ------------------------------------------------- cache: requests, keys
FuncName == <<"f">>

\* ratelimit.py:63-80  _get_rate_limit_key.  A request is what find_request
\* gives: none, or one with a client host (empty: request.client is None),
\* a request.state.user with a non-empty id (empty: no such attribute) and
\* an Authorization header (empty: absent).  hash(auth) is taken to be
\* collision free and is named by the text it hashes.
GetRateLimitKeyGlobal(by, request, func_name) ==
    Join(<<<<"g", "l", "o", "b", "a", "l">>, func_name>>, <<":">>)
GetRateLimitKey(by, request, func_name) ==
    IF by = "global"
    THEN Join(<<<<"g", "l", "o", "b", "a", "l">>, func_name>>, <<":">>)
    ELSE IF by = "user"
    THEN IF request.present /\ request.user # <<>>
         THEN Join(<<<<"u", "s", "e", "r">>, request.user, func_name>>, <<":">>)
         ELSE IF request.present
         THEN Join(<<<<"u", "s", "e", "r">>,
                     <<"#">> \o (IF request.authorization # <<>>
                                 THEN request.authorization
                                 ELSE <<"a", "n", "o", "n", "y", "m", "o", "u", "s">>),
                     func_name>>, <<":">>)
         ELSE Join(<<<<"u", "s", "e", "r">>,
                     <<"a", "n", "o", "n", "y", "m", "o", "u", "s">>,
                     func_name>>, <<":">>)
    ELSE IF request.present /\ request.client # <<>>
         THEN Join(<<<<"i", "p">>, request.client, func_name>>, <<":">>)
         ELSE Join(<<<<"i", "p">>, <<"u", "n", "k", "n", "o", "w", "n">>,
                     func_name>>, <<":">>)

\* the callers of four handlers decorated with ratelimit: f and k by ip,
\* g by global, h by user
RlCallers ==
    [by : {"ip"}, func_name : {FuncName, <<"k">>},
     request : [present : {TRUE}, client : {<<"a">>, <<"b">>, <<>>},
                user : {<<>>}, authorization : {<<>>}]
               \cup {[present |-> FALSE, client |-> <<>>, user |-> <<>>,
                      authorization |-> <<>>]}]
    \cup
    [by : {"global"}, func_name : {<<"g">>},
     request : [present : {TRUE}, client : {<<"a">>, <<"b">>},
                user : {<<>>}, authorization : {<<>>}]]
    \cup
    [by : {"user"}, func_name : {<<"h">>},
     request : [present : {TRUE}, client : {<<"a">>},
                user : {<<>>, <<"u">>}, authorization : {<<>>, <<"t">>}]
               \cup {[present |-> FALSE, client |-> <<>>, user |-> <<>>,
                      authorization |-> <<>>]}]

\* a caller of f, by ip, from client a; the single-handler specifications
\* use it and the same caller from client b
CallerA ==
    [by |-> "ip", func_name |-> FuncName,
     request |-> [present |-> TRUE, client |-> <<"a">>, user |-> <<>>,
                  authorization |-> <<>>]]
RaceKey == GetRateLimitKey(CallerA.by, CallerA.request, CallerA.func_name)
RLKeys ==
    {RaceKey,
     GetRateLimitKey(CallerA.by, [CallerA.request EXCEPT !.client = <<"b">>],
                     CallerA.func_name)}

vary == <<[kind |-> "query", name |-> <<>>]>>

\* request.query_params.multi_items(): no query, x=1&y=2, y=2&x=1
QueryLists ==
    {<<>>,
     << <<<<"x">>, <<"1">>>>, <<<<"y">>, <<"2">>>> >>,
     << <<<<"y">>, <<"2">>>>, <<<<"x">>, <<"1">>>> >>}

\* a payload is a dict with string keys and values, in insertion order
P1 == <<<<<<"a">>, <<"1">>>>>>
P2 == <<<<<<"b">>, <<"2">>>>, <<<<"a">>, <<"1">>>>>>
Payloads == {P1, P2}

\* _compute_etag: sha256 of json.dumps(payload, sort_keys=True); the digest
\* is taken to be collision free, so it is named by the text it hashes
ComputeEtag(payload) == Sorted(payload)

\* the If-None-Match header of a request
NoHeader == [present |-> FALSE, value |-> <<>>]
\* found: find_request(args, kwargs) returns the Request; NoRequest stands
\* for a call in which it returns None
FoundRequests ==
    [found : {TRUE}, method : {<<"G", "E", "T">>}, path : {<<"/", "a">>},
     query : QueryLists,
     if_none_match : {NoHeader, [present |-> TRUE, value |-> ComputeEtag(P1)]}]
NoRequest ==
    [found |-> FALSE, method |-> <<"G", "E", "T">>, path |-> <<"/", "a">>,
     query |-> <<>>, if_none_match |-> NoHeader]
Requests == FoundRequests \cup {NoRequest}

\* cache.py:55-57  _canonical_query
CanonicalQueryUnsorted(request) ==
    Join([i \in DOMAIN request.query |->
              request.query[i][1] \o <<"=">> \o request.query[i][2]], <<"&">>)
CanonicalQuery(request) ==
    LET items == Sorted(request.query)
    IN  Join([i \in DOMAIN items |-> items[i][1] \o <<"=">> \o items[i][2]], <<"&">>)

\* cache.py:60-68  _default_key (no request header is set besides
\* If-None-Match, so a headers: item of vary reads the default '')
DefaultKey(func_name, request, vary_items) ==
    LET hdr == SelectSeq(vary_items, LAMBDA item : item.kind = "header")
        extra == [i \in DOMAIN hdr |-> <<"h", ":">> \o hdr[i].name \o <<"=">>]
    IN  Join(<<Upper(request.method), request.path, CanonicalQuery(request),
               func_name>> \o extra, <<"|">>)

\* cache.py:109-116  _resolve_key with key=None
ResolveKey(request) == DefaultKey(FuncName, request, vary)

\* a key written by another user of the shared backend
OtherKey == <<"G", "E", "T", "|", "/", "a", "|", "|", "g">>
CacheKeys == {ResolveKey(r) : r \in Requests} \cup {OtherKey}

\* glob patterns given to invalidate:  *  GET|/a||*  *x=?&*|f  POST*
Patterns ==
    {<<"*">>,
     <<"G", "E", "T", "|", "/", "a", "|", "|", "*">>,
     <<"*", "x", "=", "?", "&", "*", "|", "f">>,
     <<"P", "O", "S", "T", "*">>}
NoPattern == <<>>

\* ------------------------------------------------------ cache: entries
\* cache.py:15-23  CacheEntry (content_type is always application/json)
NoEntry ==
    [present |-> FALSE, value |-> <<>>, status_code |-> 0, max_age |-> 0,
     swr |-> 0, expires_at |-> 0, stale_until |-> 0, etag |-> <<>>]

\* cache.py:151-163  the entry _execute_and_cache builds; at is `now`
NewEntryUnclamped(payload, status_code, at, ttl_s, swr_s) ==
    [present |-> TRUE, value |-> payload, status_code |-> status_code,
     max_age |-> ttl_s, swr |-> swr_s,
     expires_at |-> at + ttl_s * TicksPerSecond,
     stale_until |-> at + ttl_s * TicksPerSecond + swr_s * TicksPerSecond,
     etag |-> ComputeEtag(payload)]
NewEntryNoGrace(payload, status_code, at, ttl_s, swr_s) ==
    [present |-> TRUE, value |-> payload, status_code |-> status_code,
     max_age |-> ttl_s, swr |-> swr_s,
     expires_at |-> at + ttl_s * TicksPerSecond,
     stale_until |-> at + ttl_s * TicksPerSecond,
     etag |-> ComputeEtag(payload)]
NewEntryFirstEtag(payload, status_code, at, ttl_s, swr_s) ==
    [present |-> TRUE, value |-> payload, status_code |-> status_code,
     max_age |-> ttl_s, swr |-> swr_s,
     expires_at |-> at + ttl_s * TicksPerSecond,
     stale_until |-> at + ttl_s * TicksPerSecond + Max(swr_s, 0) * TicksPerSecond,
     etag |-> ComputeEtag(P1)]
NewEntry(payload, status_code, at, ttl_s, swr_s) ==
    [present |-> TRUE, value |-> payload, status_code |-> status_code,
     max_age |-> ttl_s, swr |-> swr_s,
     expires_at |-> at + ttl_s * TicksPerSecond,
     stale_until |-> at + ttl_s * TicksPerSecond + Max(swr_s, 0) * TicksPerSecond,
     etag |-> ComputeEtag(payload)]

\* what a handler returns: a dict, a JSONResponse, another Response, or it raises
HandlerResults ==
    {[kind |-> "dict", status |-> 200, body |-> TRUE, payload |-> pl,
      has_etag |-> FALSE, etag |-> <<>>, cache_control |-> FALSE] : pl \in Payloads}
    \cup
    {[kind |-> "json", status |-> st, body |-> TRUE, payload |-> P1,
      has_etag |-> FALSE, etag |-> <<>>, cache_control |-> FALSE] :
          st \in {201, 203, 204, 404}}
    \cup
    {[kind |-> "response", status |-> st, body |-> TRUE, payload |-> <<>>,
      has_etag |-> FALSE, etag |-> <<>>, cache_control |-> FALSE] : st \in {200}}
    \cup
    {[kind |-> "raise", status |-> 500, body |-> FALSE, payload |-> <<>>,
      has_etag |-> FALSE, etag |-> <<>>, cache_control |-> FALSE]}

NoResult ==
    [kind |-> "none", status |-> 0, body |-> FALSE, payload |-> <<>>,
     has_etag |-> FALSE, etag |-> <<>>, cache_control |-> FALSE]

\* cache.py:81  Response(status_code=304, headers={"ETag": entry.etag})
NotModified(entry) ==
    [kind |-> "response", status |-> 304, body |-> FALSE, payload |-> <<>>,
     has_etag |-> TRUE, etag |-> entry.etag, cache_control |-> FALSE]

\* cache.py:83-88, 166-170  JSONResponse(content, status_code) with the
\* ETag and Cache-Control headers
JsonResponse(payload, status_code, etag) ==
    [kind |-> "json", status |-> status_code, body |-> TRUE, payload |-> payload,
     has_etag |-> TRUE, etag |-> etag, cache_control |-> TRUE]

\* cache.py:80  request.headers.get("if-none-match") == entry.etag
EtagMatches(entry, request) ==
    request.if_none_match.present /\ request.if_none_match.value = entry.etag

\* cache.py:79-88  _build_response_from_entry
BuildResponseFromEntry(entry, request) ==
    IF EtagMatches(entry, request)
    THEN NotModified(entry)
    ELSE JsonResponse(entry.value, entry.status_code, entry.etag)

\* cache.py:120  request is None or ttl == 0
BypassesWithoutRequestOnly(request) == ~request.found
Bypasses(request) == ~request.found \/ ttl = 0

\* cache.py:128  existing and existing.expires_at > now
IsFresh(existing, at) == existing.present /\ existing.expires_at > at

\* cache.py:131  existing and existing.stale_until > now
IsStaleNever(existing, at) == FALSE
IsStale(existing, at) == existing.present /\ existing.stale_until > at

\* cache.py:136  getattr(result, "status_code", 200)
StatusOf(result) == IF result.kind = "dict" THEN 200 ELSE result.status

\* cache.py:137-141  the two tests that let a response through uncached
PassesUncachedErrorsOnly(result) ==
    ~cache_errors /\ StatusOf(result) >= 400
PassesUncached(result) ==
    \/ (~cache_errors /\ StatusOf(result) >= 400)
    \/ (StatusOf(result) \notin {200, 203, 204} /\ ~cache_errors)

\* cache.py:134-170  _execute_and_cache once the handler has returned `result`
\* for the request looked up at time `at`: the entry to store (if any) and
\* the response
AfterHandler(result, request, at) ==
    IF PassesUncached(result)
    THEN [store |-> FALSE, entry |-> NoEntry, response |-> result]
    ELSE IF result.kind = "response"
    THEN [store |-> FALSE, entry |-> NoEntry, response |-> result]
    ELSE LET entry == NewEntry(result.payload, StatusOf(result), at, ttl, swr)
         IN  [store |-> TRUE, entry |-> entry,
              response |-> JsonResponse(result.payload, StatusOf(result), entry.etag)]

\* cache.py:36-40  MemoryCacheBackend.invalidate on a whole store
MatchingKeys(store, pattern) ==
    {k \in CacheKeys : store[k].present /\ FnMatch(k, pattern)}
RemoveKeys(store, keys) ==
    [k \in CacheKeys |-> IF k \in keys THEN NoEntry ELSE store[k]]

Tasks == {"r1", "r2"}
OneTask == {"r1"}
\* history: the request that wrote an entry, the time it looked the key up
\* (cache.py:123) and the time it wrote (cache.py:165)
NoWriter == [known |-> FALSE, query |-> <<>>, at |-> 0, written |-> 0]
\* writer: the history of the entry found at the lookup; order: the position
\* of the request among those whose handler has returned
IdleTask ==
    [pc |-> "idle", request |-> NoRequest, key |-> <<>>,
     at |-> 0, existing |-> NoEntry, before |-> [k \in CacheKeys |-> NoEntry],
     result |-> NoResult, response |-> NoResult, bypass |-> FALSE,
     calls |-> 0, gets |-> 0, sets |-> 0, changed |-> FALSE,
     writer |-> NoWriter, order |-> 0]
NoInvalidate ==
    [calls |-> 0, pattern |-> NoPattern, count |-> 0, repeat |-> FALSE,
     before |-> [k \in CacheKeys |-> NoEntry]]

InitCacheState ==
    /\ c_store = [k \in CacheKeys |-> NoEntry]
    /\ c_writer = [k \in CacheKeys |-> NoWriter]
    /\ c_task = [t \in Tasks |-> IdleTask]
    /\ c_ops = 0
    /\ c_inv = NoInvalidate
    /\ c_prev = NoPattern
    /\ i_pc = "idle"
    /\ i_matched = {}
    /\ i_pending = {}

\* no handler is decorated with cache
InitCacheOff ==
    /\ ttl = 0
    /\ swr = 0
    /\ cache_errors = FALSE
    /\ InitCacheState

\* cache.py:101-102  if ttl < 0: raise ValueError
TtlAccepted(ttl_arg) == ~(ttl_arg < 0)

\* one handler decorated with cache(ttl, stale_while_revalidate, cache_errors):
\* the decorator has been applied, so it has accepted the ttl
InitCache ==
    /\ ttl \in {ttl_arg \in (-1)..MaxTtl : TtlAccepted(ttl_arg)}
    /\ swr \in (-1)..MaxSwr
    /\ cache_errors \in BOOLEAN
    /\ InitCacheState

\* no handler is decorated with ratelimit
InitRLOff ==
    /\ now = 0
    /\ limit = 1
    /\ window = 1
    /\ rl_store = [k \in RLKeys |-> <<>>]
    /\ rl_log = [k \in RLKeys |-> <<>>]

InitRL ==
    /\ now = 0
    /\ limit \in 1..MaxLimit
    /\ window \in 1..MaxWindow
    /\ rl_store = [k \in RLKeys |-> <<>>]
    /\ rl_log = [k \in RLKeys |-> <<>>]

InitThreads ==
    /\ t_pc = [t \in Threads |-> "idle"]
    /\ t_time = [t \in Threads |-> 0]
    /\ t_kept = [t \in Threads |-> <<>>]
    /\ t_count = [t \in Threads |-> 0]
    /\ t_allowed = [t \in Threads |-> FALSE]
    /\ raceFree = 0
    /\ overlap = FALSE

\* ------------------------------------------------------------------ retry
\* An exception object: its class and, as its identity, the number of the
\* handler invocation that raised it.  NoError stands for None.
NoError == [type |-> "None", id |-> 0]
Raised(error) == [kind |-> "raise", value |-> "", error |-> error]

\* retry.py:70  except exceptions: isinstance against a tuple of classes,
\* where ConnectionError and KeyError are subclasses of Exception
IsInstanceAny(type, exceptions) == TRUE
IsInstance(type, exceptions) ==
    \/ type \in exceptions
    \/ "Exception" \in exceptions /\ type \in {"ConnectionError", "KeyError"}

\* retry.py:57  for attempt in range(1, attempts + 1)
InRangeOneMore(attempt, attempts) == attempt >= 1 /\ attempt <= attempts + 1
InRange(attempt, attempts) == attempt >= 1 /\ attempt <= attempts

\* retry.py:71  last_exception = e
RememberFirst(last_exception, e) ==
    IF last_exception = NoError THEN e ELSE last_exception
Remember(last_exception, e) == e

\* retry.py:88  current_delay *= backoff
NextDelayAdditive(current_delay, backoff) == current_delay + backoff
NextDelay(current_delay, backoff) == current_delay * backoff

\* retry(attempts, delay, backoff, exceptions) around one handler, before a call
\* timeout.py:59-62  wait_for cancels the awaited call: a retry wrapper
\* inside it is stopped where it waits (retry.py:59 the handler, retry.py:87
\* the backoff sleep; CancelledError is not an Exception, so retry.py:70 does
\* not catch it) and goes no further
CancelIgnored(r) == r
Cancel(r) ==
    IF r.pc \in {"calling", "sleeping"} THEN [r EXCEPT !.pc = "cancelled"]
    ELSE r

RetryIdle(attempts, delay, backoff, exceptions) ==
    [attempts |-> attempts, delay |-> delay, backoff |-> backoff,
     exceptions |-> exceptions,
     pc |-> "idle", attempt |-> 0, current_delay |-> 0,
     last_exception |-> NoError,
     calls |-> 0, raised |-> <<>>, sleeps |-> <<>>, waited |-> 0,
     outcome |-> [kind |-> "none", value |-> "", error |-> NoError]]

\* ------------------------------------------------------------------- auth
\* What a caller of a wrapper gets: a returned value or response, or a raised
\* error; status is the HTTP status the framework answers with.
HttpError(status, detail) ==
    [kind |-> "raise", type |-> "HTTPException", status |-> status,
     detail |-> detail]

\* auth.py:102  if enabled and request
GuardedAlways(enabled, request) == request.present
Guarded(enabled, request) == enabled /\ request.present

\* auth.py:109-112
NoDelegateDenied == HttpError(403, "Not authenticated")
NoDelegateError ==
    HttpError(500, "Authentication is enabled but no handler is configured.")

\* auth.py:93-96  _get_error_message
GetErrorMessage(custom_error) ==
    IF custom_error # "" THEN custom_error ELSE "Not authenticated"

\* auth.py:123  if result is False
IsDenialNever(result) == FALSE
IsDenialFalsy(result) == result \in {"False", "None"}
IsDenial(result) == result = "False"

\* auth(enabled, roles, scopes, require_all, custom_error) around one handler
\* of an application with or without a registered delegate, before a request
AuthIdle(enabled, roles, scopes, require_all, custom_error, registered, is_async) ==
    [enabled |-> enabled, roles |-> roles, scopes |-> scopes,
     require_all |-> require_all, custom_error |-> custom_error,
     registered |-> registered, is_async |-> is_async,
     pc |-> "idle", request |-> [present |-> FALSE, authorization |-> ""],
     result |-> "unset", delegate_calls |-> 0, delegate_args |-> <<>>,
     delegate_raised |-> <<>>, calls |-> 0,
     outcome |-> [kind |-> "none", type |-> "", status |-> 0, detail |-> ""]]

\* ---------------------------------------------------------------- version
\* A dotted numeric version is the sequence of its components; a constraint
\* is the optional operator and the version.
\* version.py:57  operator = match.group(1) or "=="
Operator(constraint) ==
    IF constraint.operator = "" THEN "==" ELSE constraint.operator

\* utils.check_version, as spec.md 4.2 describes it: components compared
\* pairwise as integers from the left, a missing trailing component being 0
Component(v, i) == IF i <= Len(v) THEN v[i] ELSE 0
CompareFirstOnly(a, b, i) ==
    IF a[1] < b[1] THEN -1 ELSE IF a[1] > b[1] THEN 1 ELSE 0
RECURSIVE CompareFrom(_, _, _)
CompareFrom(a, b, i) ==
    IF i > Max(Len(a), Len(b)) THEN 0
    ELSE IF Component(a, i) < Component(b, i) THEN -1
    ELSE IF Component(a, i) > Component(b, i) THEN 1
    ELSE CompareFrom(a, b, i + 1)
CheckVersion(client_version, operator, required_version) ==
    LET c == CompareFrom(client_version, required_version, 1)
    IN  CASE operator = ">=" -> c >= 0
          [] operator = "<=" -> c <= 0
          [] operator = ">" -> c > 0
          [] operator = "<" -> c < 0
          [] operator = "==" -> c = 0
          [] operator = "!=" -> c # 0

\* version.py:98-101  find_request and request.headers.get("X-API-Version"):
\* no request, no header, an empty header, or a version
NoVersionRequest == [present |-> FALSE, header |-> "absent", version |-> <<>>]

\* version.py:106  if not client_version and strict_versioning
IsMissingNever(request, strict_versioning) == FALSE
IsMissing(request, strict_versioning) ==
    request.header # "version" /\ strict_versioning

\* the responses of the wrapper; `required` is the constraint as configured,
\* or the string "true"
VersionHandlerReply ==
    [kind |-> "return", type |-> "dict", headers |-> {},
     status |-> 200, error |-> "", detail |-> "",
     your_version |-> <<>>, required |-> [operator |-> "", version |-> <<>>]]
\* version.py:112-119
VersionRequired ==
    [kind |-> "return", type |-> "JSONResponse", headers |-> {},
     status |-> 400, error |-> "API version required",
     detail |-> "This API requires strict versioning. Please provide the X-API-Version header.",
     your_version |-> <<>>, required |-> [operator |-> "true", version |-> <<>>]]
\* version.py:130-139
IncompatibleWithoutVersion(client_version, constraint, message) ==
    [kind |-> "return", type |-> "JSONResponse", headers |-> {},
     status |-> 400, error |-> "API version incompatible",
     detail |-> IF message # "" THEN message
                ELSE "This endpoint requires API version {constraint}",
     your_version |-> <<>>, required |-> constraint]
Incompatible(client_version, constraint, message) ==
    [kind |-> "return", type |-> "JSONResponse", headers |-> {},
     status |-> 400, error |-> "API version incompatible",
     detail |-> IF message # "" THEN message
                ELSE "This endpoint requires API version {constraint}",
     your_version |-> client_version, required |-> constraint]

\* version.py:76-87  _add_deprecation_headers: a response object gets the
\* headers, a value without a `headers` attribute is left as it is
AddDeprecationHeaders(response, deprecated, sunset, message) ==
    IF ~deprecated \/ response.type = "dict" THEN response
    ELSE [response EXCEPT !.headers =
            @ \cup {<<"Deprecation", "true">>}
              \cup (IF sunset # "" THEN {<<"Sunset", sunset>>} ELSE {})
              \cup (IF message # "" THEN {<<"X-Deprecation-Message", message>>}
                    ELSE {})]

\* version(constraint, message) around one handler of an application with
\* or without strict versioning, before a request
VersionIdle(constraint, message, strict_versioning) ==
    [constraint |-> constraint, message |-> message,
     strict_versioning |-> strict_versioning,
     deprecated |-> FALSE, sunset |-> "",
     pc |-> "idle", request |-> NoVersionRequest,
     checks |-> 0, calls |-> 0,
     outcome |-> [kind |-> "none", type |-> "", headers |-> {},
                  status |-> 0, error |-> "", detail |-> "",
                  your_version |-> <<>>,
                  required |-> [operator |-> "", version |-> <<>>]]]

\* no handler is decorated with retry, auth or version
InitWrappersOff ==
    /\ r_call = RetryIdle(1, 0, 1, {"Exception"})
    /\ a_call = AuthIdle(FALSE, {}, {}, FALSE, "", FALSE, TRUE)
    /\ v_call = VersionIdle([operator |-> "", version |-> <<1>>], "", FALSE)

\* ----------------------------------------------------------- route deriver
\* route.py:11  the method names a handler identifier can begin with
HTTP_METHODS ==
    {<<"g", "e", "t">>, <<"p", "o", "s", "t">>, <<"p", "u", "t">>,
     <<"d", "e", "l", "e", "t", "e">>, <<"p", "a", "t", "c", "h">>,
     <<"o", "p", "t", "i", "o", "n", "s">>, <<"h", "e", "a", "d">>}

\* str.lower() on the letters of the identifiers used
Lower(str) ==
    [i \in DOMAIN str |->
        CASE str[i] = "G" -> "g" [] str[i] = "E" -> "e" [] str[i] = "T" -> "t"
          [] OTHER -> str[i]]

\* str.startswith(prefix)
StartsWith(str, prefix) ==
    Len(str) >= Len(prefix) /\ SubSeq(str, 1, Len(prefix)) = prefix

\* str.split(sep), from the left and without overlap; `piece` is the part
\* read since the last separator
RECURSIVE SplitFrom(_, _, _)
SplitFrom(str, sep, piece) ==
    IF str = <<>> THEN <<piece>>
    ELSE IF StartsWith(str, sep)
    THEN <<piece>> \o SplitFrom(SubSeq(str, Len(sep) + 1, Len(str)), sep, <<>>)
    ELSE SplitFrom(Tail(str), sep, Append(piece, str[1]))

\* route.py:75  name_lower == method or name_lower.startswith(f"{method}_")
MatchesMethodPrefix(name_lower, method) == StartsWith(name_lower, method)
MatchesMethod(name_lower, method) ==
    name_lower = method \/ StartsWith(name_lower, method \o <<"_">>)

\* route.py:101  f"{{{param}}}"
PlaceholderFirstWord(param) ==
    <<"{">> \o SplitFrom(param, <<"_">>, <<>>)[1] \o <<"}">>
Placeholder(param) == <<"{">> \o param \o <<"}">>

\* route.py:57-107  _parse_method_name: None, or (http_method, sub_path)
ParseMethodName(name) ==
    LET name_lower == Lower(name)
        found == {method \in HTTP_METHODS : MatchesMethod(name_lower, method)}
    IN  IF found = {}
        THEN [found |-> FALSE, http_method |-> <<>>, sub_path |-> <<>>]
        ELSE LET found_method == CHOOSE method \in found : TRUE
                 parts_by == SplitFrom(name_lower, <<"_", "b", "y", "_">>, <<>>)
                 main_segments == SplitFrom(parts_by[1], <<"_">>, <<>>)
                 path_segments == Tail(main_segments)
                 params == Tail(parts_by)
                 final_path_parts ==
                     path_segments
                     \o [i \in DOMAIN params |-> Placeholder(params[i])]
             IN  [found |-> TRUE,
                  http_method |-> Upper(found_method),
                  sub_path |-> IF final_path_parts = <<>> THEN <<"/">>
                               ELSE <<"/">> \o Join(final_path_parts, <<"/">>)]

\* version.py:53-62  the constraint is parsed when the decorator is applied:
\* an optional operator (the first of the alternatives that leaves at least
\* one character for the version), then the version text, which passes the
\* format check when it begins with a digit (the pattern has no end anchor).
\* The strip() of surrounding blanks is left out: the constraints used have
\* none.
ParseConstraint(raw) ==
    LET alternatives == << <<">", "=">>, <<"<", "=">>, <<">">>, <<"<">>,
                           <<"=", "=">>, <<"!", "=">> >>
        usable == {i \in DOMAIN alternatives :
                      /\ StartsWith(raw, alternatives[i])
                      /\ Len(raw) > Len(alternatives[i])}
        group1 == IF usable = {} THEN <<>>
                  ELSE alternatives[CHOOSE i \in usable :
                                        \A j \in usable : i <= j]
        required_version == SubSeq(raw, Len(group1) + 1, Len(raw))
    IN  IF raw = <<>>
        THEN [ok |-> FALSE, operator |-> <<>>, required_version |-> <<>>]
        ELSE [ok |-> required_version[1]
                        \in {"0", "1", "2", "3", "4", "5", "6", "7", "8", "9"},
              operator |-> IF group1 = <<>> THEN <<"=", "=">> ELSE group1,
              required_version |-> required_version]

\* ------------------------------------------------------------- deprecated
\* deprecated.py:61-70  _add_deprecation_headers; dep_message is never empty
DeprecatedHeaders(result, dep_message, alternative, sunset) ==
    IF result.type = "dict" THEN result
    ELSE [result EXCEPT !.headers =
            {<<"Deprecation", "true">>, <<"X-Deprecation-Message", dep_message>>}
            \cup (IF sunset # "" THEN {<<"Sunset", sunset>>} ELSE {})
            \cup (IF alternative # ""
                  THEN {<<"X-Deprecation-Alternative", alternative>>} ELSE {})]

\* deprecated(message, alternative, sunset) around one handler, before a request
DeprecatedIdle(message, alternative, sunset, is_async) ==
    [is_async |-> is_async,
     dep_message |-> IF message # "" THEN message
                     ELSE "This endpoint is deprecated",
     alternative |-> alternative, sunset |-> sunset,
     pc |-> "idle", logged |-> 0, calls |-> 0,
     outcome |-> [kind |-> "none", type |-> "", headers |-> {}]]

\* timeout.py:59-62  asyncio.wait_for(..., timeout=seconds): the timer of a
\* call started at `started` has run out at current_time
ExpiredNever(started, seconds, current_time) == FALSE
Expired(started, seconds, current_time) == current_time - started >= seconds

\* ---------------------------------------------------------------- timeout
\* timeout(seconds, message) around one handler, before a request; seconds
\* is held in ticks
TimeoutIdle(seconds, message, is_async) ==
    [seconds |-> seconds, is_async |-> is_async,
     error_message |-> IF message # "" THEN message
                       ELSE "Request timed out after {seconds} seconds",
     pc |-> "idle", started |-> 0, ended |-> 0, calls |-> 0,
     handler |-> "none", fired |-> FALSE, inner_pc |-> "", inner_calls |-> 0,
     outcome |-> [kind |-> "none", type |-> "", status |-> 0, detail |-> ""]]

\* no handler is decorated with deprecated or timeout, no decorator is being
\* applied and no class is being created
InitLaterOff ==
    /\ d_call = DeprecatedIdle("", "", "", TRUE)
    /\ t_call = TimeoutIdle(1, "", TRUE)
    /\ v_decl = [raw |-> <<>>, pc |-> "none", operator |-> <<>>,
                 required_version |-> <<>>]
    /\ cls = [members |-> <<>>, visited |-> <<>>, endpoints |-> <<>>]

\* the clock advances (a race of two threads is followed at one clock reading;
\* once no further operation can begin the clock is of no interest)
Tick ==
    /\ now < MaxTime
    /\ NoThreadStarted
    /\ ChecksMade < MaxChecks
    /\ c_ops < MaxOps
    /\ ~(t_call.pc = "awaiting" /\ Expired(t_call.started, t_call.seconds, now))
    /\ now' = now + 1
    /\ UNCHANGED <<rlState, thrVars, notRL>>

\* ratelimit.py:128-155  async_wrapper up to the call of the handler: the key
\* of the caller, then one whole call of _check_rate_limit(key), run without
\* interruption (the function has no await in it), and for a denial the 429
\* response with its Retry-After header; status 0 stands for a request
\* passed on to the handler
Check(caller) ==
    /\ ChecksMade < MaxChecks
    /\ NoThreadStarted
    /\ LET key == GetRateLimitKey(caller.by, caller.request, caller.func_name)
           r == CheckRateLimit(rl_store[key], now)
       IN  /\ rl_store' = [rl_store EXCEPT ![key] = r.bucket]
           /\ rl_log' = [rl_log EXCEPT ![key] =
                  Append(@, [t |-> now, allowed |-> r.allowed,
                             remaining |-> r.remaining, reset |-> r.reset,
                             caller |-> caller,
                             before |-> rl_store[key], after |-> r.bucket,
                             status |-> IF r.allowed THEN 0 ELSE 429,
                             retry_after |-> IF r.allowed THEN 0 ELSE r.reset])]
    /\ UNCHANGED <<now, limit, window>>
    /\ UNCHANGED <<thrVars, notRL>>

NextRL ==
    \/ Tick
    \/ \E caller \in {CallerA, [CallerA EXCEPT !.request.client = <<"b">>]} :
            Check(caller)

Init ==
    InitRL /\ InitThreads /\ InitCacheOff /\ InitWrappersOff /\ InitLaterOff

Spec == Init /\ [][NextRL]_vars

\* ------------------------------------------- rate limiter, several handlers
\* four handlers decorated with ratelimit(limit=1, window=1) and the three
\* strategies share _rate_limit_store; a few checks by any of their callers
NextKeys ==
    \/ now < MaxKeyTime /\ Tick
    \/ ChecksMade < MaxKeyChecks /\ \E caller \in RlCallers : Check(caller)

InitKeys ==
    /\ now = 0
    /\ limit = 1
    /\ window = 1
    /\ LET keys == {GetRateLimitKey(c.by, c.request, c.func_name) :
                        c \in RlCallers}
       IN  /\ rl_store = [k \in keys |-> <<>>]
           /\ rl_log = [k \in keys |-> <<>>]
    /\ InitThreads /\ InitCacheOff /\ InitWrappersOff /\ InitLaterOff

SpecKeys == InitKeys /\ [][NextKeys]_vars

\* ------------------------------------- rate limiter, sync_wrapper threads
\* A synchronous handler is run by the framework in a worker thread, and
\* _check_rate_limit takes no lock: a thread switch can fall between any two
\* of its statements.  Both threads check RaceKey.

\* ratelimit.py:87-88  current_time = time.time()
T_Begin(t) ==
    /\ t_pc[t] = "idle"
    /\ t_pc' = [t_pc EXCEPT ![t] = "filter"]
    /\ t_time' = [t_time EXCEPT ![t] = now]
    /\ raceFree' = IF NoThreadStarted
                   THEN limit - Len(Purge(rl_store[RaceKey], now))
                   ELSE raceFree
    /\ overlap' = (overlap \/ \E o \in Threads \ {t} : t_pc[o] \notin {"idle", "done"})
    /\ UNCHANGED <<t_kept, t_count, t_allowed>>
    /\ UNCHANGED <<now, rlState, notRL>>

\* ratelimit.py:91-94  the list comprehension builds the purged list
T_Filter(t) ==
    /\ t_pc[t] = "filter"
    /\ t_kept' = [t_kept EXCEPT ![t] = Purge(rl_store[RaceKey], t_time[t])]
    /\ t_pc' = [t_pc EXCEPT ![t] = "assign"]
    /\ UNCHANGED <<t_time, t_count, t_allowed, raceFree, overlap>>
    /\ UNCHANGED <<now, rlState, notRL>>

\* ratelimit.py:91  _rate_limit_store[key] = <that list>
T_Assign(t) ==
    /\ t_pc[t] = "assign"
    /\ rl_store' = [rl_store EXCEPT ![RaceKey] = t_kept[t]]
    /\ t_pc' = [t_pc EXCEPT ![t] = "count"]
    /\ UNCHANGED <<t_time, t_kept, t_count, t_allowed, raceFree, overlap>>
    /\ UNCHANGED <<now, limit, window, rl_log, notRL>>

\* ratelimit.py:96  current_count = len(_rate_limit_store[key])
T_Count(t) ==
    /\ t_pc[t] = "count"
    /\ t_count' = [t_count EXCEPT ![t] = Len(rl_store[RaceKey])]
    /\ t_pc' = [t_pc EXCEPT ![t] = "decide"]
    /\ UNCHANGED <<t_time, t_kept, t_allowed, raceFree, overlap>>
    /\ UNCHANGED <<now, rlState, notRL>>

\* ratelimit.py:99-118  deny, or append current_time and allow
T_Decide(t) ==
    /\ t_pc[t] = "decide"
    /\ IF IsOverLimit(t_count[t])
       THEN /\ t_allowed' = [t_allowed EXCEPT ![t] = FALSE]
            /\ UNCHANGED rl_store
       ELSE /\ t_allowed' = [t_allowed EXCEPT ![t] = TRUE]
            /\ rl_store' = [rl_store EXCEPT ![RaceKey] = Append(@, t_time[t])]
    /\ t_pc' = [t_pc EXCEPT ![t] = "done"]
    /\ UNCHANGED <<t_time, t_kept, t_count, raceFree, overlap>>
    /\ UNCHANGED <<now, limit, window, rl_log, notRL>>

NextThreads ==
    \/ Tick
    \/ Check(CallerA)
    \/ \E t \in Threads : T_Begin(t)
    \/ \E t \in Threads : T_Filter(t)
    \/ \E t \in Threads : T_Assign(t)
    \/ \E t \in Threads : T_Count(t)
    \/ \E t \in Threads : T_Decide(t)

SpecThreads == Init /\ [][NextThreads]_vars

\* ------------------------------------------------------ cache: actions
\* cache.py:180  wrapper = async_wrapper if is_async(func) else sync_wrapper
UsesCacheAlways(is_async) == TRUE
UsesCache(is_async) == is_async

\* cache.py:118-132  async_wrapper -> _execute_and_cache up to the point
\* where it either answers from the store or awaits the handler
CacheBegin(t, request) ==
    /\ c_task[t].pc \in {"idle", "done"}
    /\ c_ops < MaxOps
    /\ c_ops' = c_ops + 1
    /\ c_prev' = NoPattern
    /\ IF Bypasses(request)
       THEN c_task' = [c_task EXCEPT ![t] =
                [IdleTask EXCEPT !.pc = "handler", !.request = request,
                                 !.bypass = TRUE, !.at = now, !.before = c_store]]
       ELSE LET cache_key == ResolveKey(request)
                existing == c_store[cache_key]
                looked == [IdleTask EXCEPT !.request = request, !.key = cache_key,
                                           !.at = now, !.existing = existing,
                                           !.before = c_store, !.gets = 1,
                                           !.writer = c_writer[cache_key]]
            IN  IF IsFresh(existing, now) \/ IsStale(existing, now)
                THEN c_task' = [c_task EXCEPT ![t] =
                         [looked EXCEPT !.pc = "done",
                              !.response = BuildResponseFromEntry(existing, request)]]
                ELSE c_task' = [c_task EXCEPT ![t] = [looked EXCEPT !.pc = "handler"]]
    /\ UNCHANGED <<now, cacheConf, c_store, c_writer, c_inv, invVars, notCache>>

\* cache.py:121 and 134-170  the awaited handler returns `result` (or raises)
\* and _execute_and_cache runs to its return
HandlerReturns(t, result) ==
    /\ c_task[t].pc = "handler"
    /\ c_prev' = NoPattern
    /\ LET me == c_task[t]
           after == AfterHandler(result, me.request, me.at)
           order == 1 + Cardinality({u \in Tasks \ {t} : c_task[u].calls = 1})
       IN  IF me.bypass \/ result.kind = "raise" \/ ~after.store
           THEN /\ c_task' = [c_task EXCEPT ![t] =
                        [me EXCEPT !.pc = "done", !.result = result, !.calls = 1,
                             !.order = order,
                             !.response = IF me.bypass \/ result.kind = "raise"
                                          THEN result ELSE after.response]]
                /\ UNCHANGED <<c_store, c_writer>>
           ELSE /\ c_store' = [c_store EXCEPT ![me.key] = after.entry]
                /\ c_writer' = [c_writer EXCEPT ![me.key] =
                        [known |-> TRUE, query |-> me.request.query,
                         at |-> me.at, written |-> now]]
                /\ c_task' = [c_task EXCEPT ![t] =
                        [me EXCEPT !.pc = "done", !.result = result, !.calls = 1,
                             !.sets = 1, !.changed = (c_store'[me.key] # c_store[me.key]),
                             !.order = order,
                             !.response = after.response]]
    /\ UNCHANGED <<now, cacheConf, c_ops, c_inv, invVars, notCache>>

\* cache.py:176-178  a call of the wrapper of a synchronous handler, which
\* returns `result` or raises: return func(*args, **kwargs)
CacheSyncCall(t, request, result) ==
    IF UsesCache(FALSE)
    THEN CacheBegin(t, request)
    ELSE /\ c_task[t].pc \in {"idle", "done"}
         /\ c_ops < MaxOps
         /\ c_ops' = c_ops + 1
         /\ c_prev' = NoPattern
         /\ c_task' = [c_task EXCEPT ![t] =
                 [IdleTask EXCEPT !.pc = "done", !.request = request, !.at = now,
                                  !.before = c_store, !.result = result,
                                  !.response = result, !.calls = 1]]
         /\ UNCHANGED <<now, cacheConf, c_store, c_writer, c_inv, invVars, notCache>>

\* cache.py:33-34  MemoryCacheBackend.set called for another handler that
\* shares the backend: an entry written now with ttl_s > 0
BackendSet(key, payload, ttl_s) ==
    /\ c_ops < MaxOps
    /\ c_ops' = c_ops + 1
    /\ c_prev' = NoPattern
    /\ c_store' = [c_store EXCEPT ![key] = NewEntry(payload, 200, now, ttl_s, 0)]
    /\ c_writer' = [c_writer EXCEPT ![key] = NoWriter]
    /\ UNCHANGED <<now, cacheConf, c_task, c_inv, invVars, notCache>>

\* cache.py:194-197 and 36-40  invalidate(pattern), run without interruption
InvalidateKeepsOne(pattern) ==
    LET keys == MatchingKeys(c_store, pattern)
        gone == IF keys = {} THEN {} ELSE keys \ {CHOOSE k \in keys : TRUE}
    IN  /\ i_pc = "idle"
        /\ c_inv.calls < MaxInvalidates
        /\ c_store' = RemoveKeys(c_store, gone)
        /\ c_writer' = [k \in CacheKeys |-> IF k \in gone THEN NoWriter ELSE c_writer[k]]
        /\ c_inv' = [calls |-> c_inv.calls + 1, pattern |-> pattern,
                     count |-> Cardinality(keys), repeat |-> (c_prev = pattern),
                     before |-> c_store]
        /\ c_prev' = pattern
        /\ UNCHANGED <<now, cacheConf, c_task, c_ops, invVars, notCache>>
Invalidate(pattern) ==
    LET keys == MatchingKeys(c_store, pattern)
    IN  /\ i_pc = "idle"
        /\ c_inv.calls < MaxInvalidates
        /\ c_store' = RemoveKeys(c_store, keys)
        /\ c_writer' = [k \in CacheKeys |-> IF k \in keys THEN NoWriter ELSE c_writer[k]]
        /\ c_inv' = [calls |-> c_inv.calls + 1, pattern |-> pattern,
                     count |-> Cardinality(keys), repeat |-> (c_prev = pattern),
                     before |-> c_store]
        /\ c_prev' = pattern
        /\ UNCHANGED <<now, cacheConf, c_task, c_ops, invVars, notCache>>

\* ------------------------------------------- cache: invalidate in a thread
\* invalidate takes no lock; called from a worker thread (a synchronous
\* handler) its statements interleave with the other users of the backend.

\* cache.py:37  keys = [k for k in self._store if fnmatch(k, pattern)]
I_Scan(pattern) ==
    /\ i_pc = "idle"
    /\ c_inv.calls < MaxInvalidates
    /\ i_pc' = "pop"
    /\ i_matched' = MatchingKeys(c_store, pattern)
    /\ i_pending' = MatchingKeys(c_store, pattern)
    /\ c_inv' = [c_inv EXCEPT !.pattern = pattern, !.repeat = (c_prev = pattern),
                              !.before = c_store]
    /\ UNCHANGED <<now, cacheConf, c_store, c_writer, c_task, c_ops, c_prev, notCache>>

\* cache.py:38-39  one turn of the loop: self._store.pop(key, None)
I_Pop(key) ==
    /\ i_pc = "pop"
    /\ key \in i_pending
    /\ i_pending' = i_pending \ {key}
    /\ c_store' = [c_store EXCEPT ![key] = NoEntry]
    /\ c_writer' = [c_writer EXCEPT ![key] = NoWriter]
    /\ UNCHANGED <<now, cacheConf, c_task, c_ops, c_inv, c_prev, i_pc, i_matched, notCache>>

\* cache.py:40  return len(keys)
I_Return ==
    /\ i_pc = "pop"
    /\ i_pending = {}
    /\ i_pc' = "idle"
    /\ c_inv' = [c_inv EXCEPT !.calls = @ + 1, !.count = Cardinality(i_matched)]
    /\ c_prev' = c_inv.pattern
    /\ UNCHANGED <<now, cacheConf, c_store, c_writer, c_task, c_ops, i_matched,
                   i_pending, notCache>>

NextCache ==
    \/ Tick
    \/ \E t \in OneTask, request \in Requests : CacheBegin(t, request)
    \/ \E t \in OneTask, result \in HandlerResults : HandlerReturns(t, result)
    \/ \E key \in CacheKeys, ttl_s \in 1..MaxTtl : BackendSet(key, P1, ttl_s)

InitCached ==
    InitRLOff /\ InitThreads /\ InitCache /\ InitWrappersOff /\ InitLaterOff

SpecCache == InitCached /\ [][NextCache]_vars

\* two requests for one key on one event loop: the awaited handler
\* (cache.py:134) is the only point where a request gives way to the other
NextCacheTwo ==
    \/ Tick
    \/ \E t \in Tasks :
          \E request \in {r \in FoundRequests :
                              ~r.if_none_match.present /\ r.query # <<>>} :
              CacheBegin(t, request)
    \/ \E t \in Tasks :
          \E result \in {r \in HandlerResults : r.kind = "dict"} :
              HandlerReturns(t, result)

SpecCacheTwo == InitCached /\ [][NextCacheTwo]_vars

\* a synchronous handler under cache, beside another handler that fills the
\* shared backend
NextCacheSync ==
    \/ Tick
    \/ \E t \in OneTask, request \in Requests, result \in HandlerResults :
          CacheSyncCall(t, request, result)
    \/ \E key \in CacheKeys, ttl_s \in 1..MaxTtl : BackendSet(key, P1, ttl_s)

SpecCacheSync == InitCached /\ [][NextCacheSync]_vars

NextInvalidate ==
    \/ \E key \in CacheKeys, payload \in Payloads : BackendSet(key, payload, MaxTtl)
    \/ \E pattern \in Patterns : Invalidate(pattern)

InitInvalidate ==
    InitRLOff /\ InitThreads /\ InitCacheOff /\ InitWrappersOff /\ InitLaterOff

SpecInvalidate == InitInvalidate /\ [][NextInvalidate]_vars

NextInvalidateThread ==
    \/ \E key \in CacheKeys, payload \in Payloads : BackendSet(key, payload, MaxTtl)
    \/ \E pattern \in Patterns : I_Scan(pattern)
    \/ \E key \in CacheKeys : I_Pop(key)
    \/ I_Return

SpecInvalidateThread == InitInvalidate /\ [][NextInvalidateThread]_vars

\* ---------------------------------------------------------- retry steps
\* retry.py:57, 103  the loop header: the next iteration, or the exit to
\* raise last_exception; raising None is a TypeError
RetryLoop(r, attempt) ==
    IF InRange(attempt, r.attempts)
    THEN [r EXCEPT !.pc = "calling", !.attempt = attempt]
    ELSE [r EXCEPT
            !.pc = "done",
            !.outcome = IF r.last_exception = NoError
                        THEN Raised([type |-> "TypeError", id |-> 0])
                        ELSE Raised(r.last_exception)]

\* retry.py:53-57  a call enters the wrapper
RetryBegin ==
    /\ r_call.pc = "idle"
    /\ r_call' = RetryLoop([r_call EXCEPT !.current_delay = r_call.delay], 1)
    /\ UNCHANGED <<notWrap, a_call, v_call>>

\* retry.py:59-68  the handler returns
RetryHandlerReturns(value) ==
    /\ r_call.pc = "calling"
    /\ r_call' = [r_call EXCEPT !.pc = "done",
                                !.calls = @ + 1,
                                !.outcome = [kind |-> "return",
                                             value |-> value,
                                             error |-> NoError]]
    /\ UNCHANGED <<notWrap, a_call, v_call>>

\* retry.py:59, 70-100  the handler raises: an exception outside `exceptions`
\* leaves the wrapper; otherwise the wrapper sleeps if attempt < attempts
RetryHandlerRaises(type) ==
    /\ r_call.pc = "calling"
    /\ LET e == [type |-> type, id |-> r_call.calls + 1]
           r == [r_call EXCEPT !.calls = @ + 1, !.raised = Append(@, e)]
       IN  IF ~IsInstance(type, r.exceptions)
           THEN r_call' = [r EXCEPT !.pc = "done", !.outcome = Raised(e)]
           ELSE LET r2 == [r EXCEPT
                            !.last_exception = Remember(r.last_exception, e)]
                IN  IF r2.attempt < r2.attempts
                    THEN r_call' = [r2 EXCEPT
                                     !.pc = "sleeping",
                                     !.sleeps = Append(@, r2.current_delay)]
                    ELSE r_call' = RetryLoop(r2, r2.attempt + 1)
    /\ UNCHANGED <<notWrap, a_call, v_call>>

\* retry.py:87-88  the sleep ends, the delay grows, the loop goes on
RetrySleepDone ==
    /\ r_call.pc = "sleeping"
    /\ r_call' = RetryLoop(
            [r_call EXCEPT
                !.waited = @ + r_call.current_delay,
                !.current_delay = NextDelay(r_call.current_delay, r_call.backoff)],
            r_call.attempt + 1)
    /\ UNCHANGED <<notWrap, a_call, v_call>>

NextRetry ==
    \/ RetryBegin
    \/ RetryHandlerReturns("ok")
    \/ \E type \in {"ConnectionError", "KeyError"} : RetryHandlerRaises(type)
    \/ RetrySleepDone

\* one handler decorated with retry(attempts, delay, backoff, exceptions)
InitRetrying ==
    /\ InitRLOff /\ InitThreads /\ InitCacheOff
    /\ \E attempts \in 0..MaxAttempts, delay \in 0..MaxDelay,
          backoff \in 0..MaxBackoff,
          exceptions \in {{"Exception"}, {"ConnectionError"}} :
            r_call = RetryIdle(attempts, delay, backoff, exceptions)
    /\ a_call = AuthIdle(FALSE, {}, {}, FALSE, "", FALSE, TRUE)
    /\ v_call = VersionIdle([operator |-> "", version |-> <<1>>], "", FALSE)
    /\ InitLaterOff

SpecRetry == InitRetrying /\ [][NextRetry]_vars

\* ----------------------------------------------------------- auth steps
\* auth.py:100-112  a request enters the wrapper
AuthBegin(request) ==
    /\ a_call.pc = "idle"
    /\ LET a == [a_call EXCEPT !.request = request]
       IN  IF ~Guarded(a.enabled, request)
           THEN a_call' = [a EXCEPT !.pc = "handler"]
           ELSE IF ~a.registered
           THEN a_call' = [a EXCEPT !.pc = "done", !.outcome = NoDelegateError]
           ELSE a_call' = [a EXCEPT
                    !.pc = "delegate4",
                    !.delegate_calls = @ + 1,
                    !.delegate_args = <<"request", a.roles, a.scopes, a.require_all>>]
    /\ UNCHANGED <<notWrap, r_call, v_call>>

\* auth.py:118-124  the awaited delegate returns
AuthDelegateReturns(result) ==
    /\ a_call.pc \in {"delegate4", "delegate2"}
    /\ LET a == [a_call EXCEPT !.result = result]
       IN  IF IsDenial(result)
           THEN a_call' = [a EXCEPT
                    !.pc = "done",
                    !.outcome = HttpError(403, GetErrorMessage(a.custom_error))]
           ELSE a_call' = [a EXCEPT !.pc = "handler"]
    /\ UNCHANGED <<notWrap, r_call, v_call>>

\* auth.py:117-133  the awaited delegate raises: a TypeError of the first call
\* leads to the call with the old signature, an HTTPException is raised
\* again as it is, any other error becomes a 500
AuthDelegateRaises(e) ==
    /\ a_call.pc \in {"delegate4", "delegate2"}
    /\ LET a == [a_call EXCEPT !.delegate_raised = Append(@, e.type)]
       IN  IF e.type = "TypeError" /\ a.pc = "delegate4"
           THEN a_call' = [a EXCEPT
                    !.pc = "delegate2",
                    !.delegate_calls = @ + 1,
                    !.delegate_args = <<"request", a.roles>>]
           ELSE IF e.type = "HTTPException"
           THEN a_call' = [a EXCEPT
                    !.pc = "done",
                    !.outcome = HttpError(e.status, e.detail)]
           ELSE a_call' = [a EXCEPT
                    !.pc = "done",
                    !.outcome = HttpError(500, "Internal authentication error")]
    /\ UNCHANGED <<notWrap, r_call, v_call>>

\* auth.py:139  return await func(*args, **kwargs); the wrapper is the
\* coroutine also for a synchronous handler (auth.py:184), and the await of
\* what such a handler returned is a TypeError that leaves the wrapper
AuthHandlerReturns ==
    /\ a_call.pc = "handler"
    /\ a_call' = [a_call EXCEPT
            !.pc = "done",
            !.calls = @ + 1,
            !.outcome = IF a_call.is_async
                        THEN [kind |-> "return", type |-> "dict",
                              status |-> 200, detail |-> ""]
                        ELSE [kind |-> "raise", type |-> "TypeError",
                              status |-> 500, detail |-> ""]]
    /\ UNCHANGED <<notWrap, r_call, v_call>>

\* find_request gives None or the request, with or without an Authorization
\* header; the awaited delegate returns True, False or None, or raises
NextAuth ==
    \/ \E request \in {[present |-> FALSE, authorization |-> ""],
                        [present |-> TRUE, authorization |-> ""],
                        [present |-> TRUE, authorization |-> "Bearer user-token"]} :
            AuthBegin(request)
    \/ \E result \in {"True", "False", "None"} : AuthDelegateReturns(result)
    \/ \E e \in {[type |-> "HTTPException", status |-> 403,
                   detail |-> "Insufficient permissions"],
                  [type |-> "TypeError", status |-> 0, detail |-> ""],
                  [type |-> "ValueError", status |-> 0, detail |-> ""]} :
            AuthDelegateRaises(e)
    \/ AuthHandlerReturns

\* one handler decorated with auth(...), in an application with or without a
\* registered delegate
InitAuthorizing ==
    /\ InitRLOff /\ InitThreads /\ InitCacheOff
    /\ r_call = RetryIdle(1, 0, 1, {"Exception"})
    /\ \E enabled \in BOOLEAN, roles \in {{}, {"admin"}},
          scopes \in {{}, {"read:all"}}, require_all \in BOOLEAN,
          custom_error \in {"", "Custom auth failure message"},
          registered \in BOOLEAN, is_async \in BOOLEAN :
            a_call = AuthIdle(enabled, roles, scopes, require_all, custom_error,
                              registered, is_async)
    /\ v_call = VersionIdle([operator |-> "", version |-> <<1>>], "", FALSE)
    /\ InitLaterOff

SpecAuth == InitAuthorizing /\ [][NextAuth]_vars

\* -------------------------------------------------------- version steps
\* version.py:98-139  a request enters the wrapper
VersionBegin(request) ==
    /\ v_call.pc = "idle"
    /\ LET v == [v_call EXCEPT !.request = request]
       IN  IF ~request.present
           THEN v_call' = [v EXCEPT !.pc = "handler"]
           ELSE IF IsMissing(request, v.strict_versioning)
           THEN v_call' = [v EXCEPT !.pc = "done", !.outcome = VersionRequired]
           ELSE IF request.header # "version"
           THEN v_call' = [v EXCEPT !.pc = "handler"]
           ELSE IF CheckVersion(request.version, Operator(v.constraint),
                                v.constraint.version)
           THEN v_call' = [v EXCEPT !.pc = "handler", !.checks = @ + 1]
           ELSE v_call' = [v EXCEPT
                    !.pc = "done",
                    !.checks = @ + 1,
                    !.outcome = Incompatible(request.version, v.constraint,
                                             v.message)]
    /\ UNCHANGED <<notWrap, r_call, a_call>>

\* version.py:145-147  the handler returns a dict or a response object
VersionHandlerReturns(type) ==
    /\ v_call.pc = "handler"
    /\ v_call' = [v_call EXCEPT
            !.pc = "done",
            !.calls = @ + 1,
            !.outcome = AddDeprecationHeaders(
                            [VersionHandlerReply EXCEPT !.type = type],
                            v_call.deprecated, v_call.sunset, v_call.message)]
    /\ UNCHANGED <<notWrap, r_call, a_call>>

\* find_request gives None or the request; its X-API-Version header is
\* absent, empty or a version
NextVersion ==
    \/ \E request \in
            {NoVersionRequest}
            \cup {[present |-> TRUE, header |-> h, version |-> <<>>] :
                    h \in {"absent", "empty"}}
            \cup {[present |-> TRUE, header |-> "version", version |-> v] :
                    v \in {<<1>>, <<1, 0>>, <<1, 2>>, <<1, 2, 0>>,
                           <<1, 10>>, <<2>>}} :
            VersionBegin(request)
    \/ \E type \in {"dict", "JSONResponse"} : VersionHandlerReturns(type)

\* one handler decorated with version(constraint, message), in an
\* application with or without strict versioning
InitVersioning ==
    /\ InitRLOff /\ InitThreads /\ InitCacheOff
    /\ r_call = RetryIdle(1, 0, 1, {"Exception"})
    /\ a_call = AuthIdle(FALSE, {}, {}, FALSE, "", FALSE, TRUE)
    /\ \E op \in {">=", "<=", ">", "<", "==", "!=", ""},
          version \in {<<1>>, <<1, 2>>, <<1, 9>>},
          message \in {"", "Use v3 API"}, strict_versioning \in BOOLEAN,
          deprecated \in BOOLEAN, sunset \in {"", "2025-12-01"} :
            v_call = [VersionIdle([operator |-> op, version |-> version],
                                  message, strict_versioning)
                        EXCEPT !.deprecated = deprecated, !.sunset = sunset]
    /\ InitLaterOff

SpecVersion == InitVersioning /\ [][NextVersion]_vars

\* ------------------------------------------------------- definition time
\* route.py:27-38  RouteMeta.__new__ looks at the next entry of the class
\* namespace: names with a leading underscore, values that are not callable
\* and names _parse_method_name does not recognise are passed over
RouteVisit ==
    /\ cls.members # <<>>
    /\ LET m == Head(cls.members)
           parsed == ParseMethodName(m.name)
       IN  cls' = [cls EXCEPT
                !.members = Tail(@),
                !.visited = Append(@, m),
                !.endpoints =
                    IF StartsWith(m.name, <<"_">>) \/ ~m.callable
                       \/ ~parsed.found
                    THEN @
                    ELSE Append(@, [http_method |-> parsed.http_method,
                                    sub_path |-> parsed.sub_path,
                                    name |-> m.name])]
    /\ UNCHANGED <<now, rlState, thrVars, cacheVars, invVars, wrapVars,
                   d_call, t_call, v_decl>>

\* version.py:53-62  version(constraint) is applied to a handler: it raises
\* ValueError or keeps the operator and the version text
VersionDecorate ==
    /\ v_decl.pc = "undecorated"
    /\ LET parsed == ParseConstraint(v_decl.raw)
       IN  v_decl' = [v_decl EXCEPT
                !.pc = IF parsed.ok THEN "decorated" ELSE "rejected",
                !.operator = IF parsed.ok THEN parsed.operator ELSE <<>>,
                !.required_version =
                    IF parsed.ok THEN parsed.required_version ELSE <<>>]
    /\ UNCHANGED <<now, rlState, thrVars, cacheVars, invVars, wrapVars,
                   d_call, t_call, cls>>

NextDefine == RouteVisit \/ VersionDecorate

\* a class whose namespace holds one or two members: a handler named after
\* the convention (verb, words, parameters) or another attribute; and a
\* constraint made of an operator text and a version text
InitDefining ==
    /\ InitRLOff /\ InitThreads /\ InitCacheOff /\ InitWrappersOff
    /\ d_call = DeprecatedIdle("", "", "", TRUE)
    /\ t_call = TimeoutIdle(1, "", TRUE)
    /\ \E op \in {<<>>, <<">", "=">>, <<"<">>, <<"=", "=">>, <<"!", "=">>,
                 <<"=">>, <<"~">>},
          text \in {<<>>, <<"1">>, <<"1", ".", "2">>, <<"1", ".", "x">>,
                    <<"1", ".">>, <<"x">>, <<"v", "1">>} :
            v_decl = [raw |-> op \o text, pc |-> "undecorated",
                      operator |-> <<>>, required_version |-> <<>>]
    /\ LET a == <<"a">>
           id == <<"i", "d">>
           item_id == <<"i", "_", "d">>
           named ==
               {[name |-> Join(<<Join(<<verb>> \o words, <<"_">>)>> \o params,
                               <<"_", "b", "y", "_">>),
                 callable |-> callable, verb |-> verb, words |-> words,
                 params |-> params] :
                    verb \in {<<"g", "e", "t">>, <<"G", "e", "t">>},
                    words \in {<<>>, <<a>>, <<id>>, <<a, id>>},
                    params \in {<<>>, <<id>>, <<item_id>>, <<id, item_id>>,
                                <<item_id, id>>},
                    callable \in BOOLEAN}
           others ==
               {[name |-> name, callable |-> callable, verb |-> <<>>,
                 words |-> <<>>, params |-> <<>>] :
                    name \in {<<"_", "g", "e", "t">>, <<"_", "g", "e", "t", "_", "a">>,
                              <<"g", "e", "t", "a">>, <<"g", "e">>,
                              <<"d", "a", "t", "a">>, <<"a", "_", "g", "e", "t">>},
                    callable \in BOOLEAN}
       IN  \E m \in named \cup others :
                cls = [members |-> <<m>>, visited |-> <<>>, endpoints |-> <<>>]

SpecDefine == InitDefining /\ [][NextDefine]_vars

\* ------------------------------------------------------------- deprecated
\* deprecated.py:85-88, 94-97  the wrapper logs the warning and calls the
\* handler
DeprecatedBegin ==
    /\ d_call.pc = "idle"
    /\ d_call' = [d_call EXCEPT !.pc = "handler", !.logged = @ + 1,
                                !.calls = @ + 1]
    /\ UNCHANGED <<now, rlState, thrVars, cacheVars, invVars, wrapVars,
                   t_call, v_decl, cls>>

\* deprecated.py:90-92, 99-101  the handler ends: a returned plain value or
\* response object passes through _add_deprecation_headers; a raised error
\* is caught by nothing and leaves the wrapper as it is
DeprecatedHandlerEnds(kind, type) ==
    /\ d_call.pc = "handler"
    /\ d_call' = [d_call EXCEPT
            !.pc = "done",
            !.outcome =
                IF kind = "raise"
                THEN [kind |-> kind, type |-> type, headers |-> {}]
                ELSE DeprecatedHeaders(
                        [kind |-> kind, type |-> type, headers |-> {}],
                        d_call.dep_message, d_call.alternative, d_call.sunset)]
    /\ UNCHANGED <<now, rlState, thrVars, cacheVars, invVars, wrapVars,
                   t_call, v_decl, cls>>

NextDeprecated ==
    \/ DeprecatedBegin
    \/ \E type \in {"dict", "str", "JSONResponse", "Response"} :
            DeprecatedHandlerEnds("return", type)
    \/ \E type \in {"ValueError", "HTTPException"} :
            DeprecatedHandlerEnds("raise", type)

InitDeprecating ==
    /\ InitRLOff /\ InitThreads /\ InitCacheOff /\ InitWrappersOff
    /\ \E message \in {"", "Use /v2/users"}, alternative \in {"", "/v2/users"},
          sunset \in {"", "2025-12-01"}, is_async \in BOOLEAN :
            d_call = DeprecatedIdle(message, alternative, sunset, is_async)
    /\ t_call = TimeoutIdle(1, "", TRUE)
    /\ v_decl = [raw |-> <<>>, pc |-> "none", operator |-> <<>>,
                 required_version |-> <<>>]
    /\ cls = [members |-> <<>>, visited |-> <<>>, endpoints |-> <<>>]

SpecDeprecated == InitDeprecating /\ [][NextDeprecated]_vars

\* ---------------------------------------------------------------- timeout
\* timeout.py:84  wrapper = async_wrapper if is_async(fn) else sync_wrapper:
\* only a coroutine function is awaited under asyncio.wait_for
WaitsForAlways(is_async) == TRUE
WaitsFor(is_async) == is_async

\* timeout.py:54-62, 76-82  the wrapper starts the handler: under wait_for
\* for an async handler, plainly for a sync one
TimeoutBegin ==
    /\ t_call.pc = "idle"
    /\ t_call' = [t_call EXCEPT
            !.pc = IF WaitsFor(t_call.is_async) THEN "awaiting" ELSE "running",
            !.started = now, !.calls = @ + 1, !.handler = "pending"]
    /\ UNCHANGED <<now, rlState, thrVars, cacheVars, invVars, wrapVars,
                   d_call, v_decl, cls>>

\* timeout.py:63-74, 82  the handler ends before the timer cancels it: its
\* value is returned and its error propagates, except that an
\* asyncio.TimeoutError it raised itself is caught like the timer's
TimeoutHandlerEnds(result) ==
    /\ t_call.pc \in {"awaiting", "running"}
    /\ t_call' = [t_call EXCEPT
            !.pc = "done",
            !.ended = now,
            !.handler = IF result.kind = "return" THEN "returned" ELSE "raised",
            !.outcome = IF t_call.pc = "awaiting" /\ result.type = "TimeoutError"
                        THEN HttpError(504, t_call.error_message)
                        ELSE result]
    /\ UNCHANGED <<now, rlState, thrVars, cacheVars, invVars, d_call, v_decl,
                   cls>>

\* timeout.py:59-74  the timer runs out while the handler is awaited:
\* wait_for cancels the handler and raises TimeoutError, which becomes the 504
TimeoutFires ==
    /\ t_call.pc = "awaiting"
    /\ Expired(t_call.started, t_call.seconds, now)
    /\ t_call' = [t_call EXCEPT
            !.pc = "done",
            !.ended = now,
            !.fired = TRUE,
            !.handler = "cancelled",
            !.inner_pc = r_call.pc,
            !.inner_calls = r_call.calls,
            !.outcome = HttpError(504, t_call.error_message)]
    /\ r_call' = Cancel(r_call)
    /\ UNCHANGED <<now, rlState, thrVars, cacheVars, invVars, a_call, v_call,
                   d_call, v_decl, cls>>

NextTimeout ==
    \/ Tick
    \/ TimeoutBegin
    \/ \E result \in {[kind |-> "return", type |-> "dict", status |-> 0,
                      detail |-> ""],
                     [kind |-> "raise", type |-> "ValueError", status |-> 0,
                      detail |-> ""],
                     [kind |-> "raise", type |-> "TimeoutError", status |-> 0,
                      detail |-> ""]} :
            TimeoutHandlerEnds(result) /\ UNCHANGED wrapVars
    \/ TimeoutFires

InitTimingOut ==
    /\ InitRLOff /\ InitThreads /\ InitCacheOff /\ InitWrappersOff
    /\ d_call = DeprecatedIdle("", "", "", TRUE)
    /\ \E seconds \in 1..MaxSeconds, message \in {"", "Operation timed out"},
          is_async \in BOOLEAN :
            t_call = TimeoutIdle(seconds, message, is_async)
    /\ v_decl = [raw |-> <<>>, pc |-> "none", operator |-> <<>>,
                 required_version |-> <<>>]
    /\ cls = [members |-> <<>>, visited |-> <<>>, endpoints |-> <<>>]

SpecTimeout == InitTimingOut /\ [][NextTimeout]_vars

\* --------------------------------------------------------------- pipeline
\* ratelimit.py:133-157  the rate-limit wrapper calls what it wraps only for
\* a request whose check, the last in the log of its key, was allowed
AdmitsAny(log) == TRUE
Admits(log) == log # <<>> /\ log[Len(log)].allowed

\* One endpoint decorated, from the outside in, with ratelimit, version,
\* auth, cache, timeout and retry, and one request passing through: each
\* wrapper is entered when the wrapper around it calls what it wraps, and
\* its own handler returns when the wrapper inside it has ended.  Earlier
\* requests on the key show only as earlier rate-limit checks and as an
\* entry another caller stored in the backend.  An error leaving the cache
\* wrapper passes through auth and version unchanged (auth.py:139 and
\* version.py:145 are outside any try).
NextPipeline ==
    \/ Tick
    \/ /\ v_call.pc = "idle"
       /\ Len(rl_log[RaceKey]) < 2
       /\ Check(CallerA)
    \/ /\ v_call.pc = "idle"
       /\ c_ops = 0
       /\ BackendSet(ResolveKey([NoRequest EXCEPT !.found = TRUE]), P1, 1)
    \/ /\ Admits(rl_log[RaceKey])
       /\ \E version \in {<<1>>, <<1, 2>>} :
            VersionBegin([present |-> TRUE, header |-> "version",
                          version |-> version])
    \/ /\ v_call.pc = "handler"
       /\ AuthBegin([present |-> TRUE, authorization |-> "Bearer user-token"])
    \/ \E result \in {"True", "False"} : AuthDelegateReturns(result)
    \/ /\ a_call.pc = "handler"
       /\ c_task["r1"].pc = "idle"
       /\ \E request \in {NoRequest, [NoRequest EXCEPT !.found = TRUE]} :
            CacheBegin("r1", request)
    \/ /\ c_task["r1"].pc = "handler"
       /\ TimeoutBegin
    \/ /\ t_call.pc = "awaiting"
       /\ RetryBegin
    \/ RetryHandlerReturns("ok")
    \/ RetryHandlerRaises("ConnectionError")
    \/ RetrySleepDone
    \/ TimeoutFires
    \/ /\ r_call.pc = "done"
       /\ TimeoutHandlerEnds(
            [kind |-> r_call.outcome.kind,
             type |-> IF r_call.outcome.kind = "return" THEN "dict"
                      ELSE r_call.outcome.error.type,
             status |-> 0, detail |-> ""])
       /\ UNCHANGED wrapVars
    \/ /\ t_call.pc = "done"
       /\ HandlerReturns("r1",
            IF t_call.outcome.kind = "return"
            THEN [NoResult EXCEPT !.kind = "dict", !.status = 200,
                                  !.body = TRUE, !.payload = P1]
            ELSE [NoResult EXCEPT !.kind = "raise", !.status = 500])
    \/ /\ c_task["r1"].pc = "done"
       /\ c_task["r1"].response.kind # "raise"
       /\ AuthHandlerReturns
    \/ /\ a_call.pc = "done"
       /\ a_call.calls = 1
       /\ VersionHandlerReturns("dict")

InitPipeline ==
    /\ InitRLOff /\ InitThreads /\ InitCacheState
    /\ ttl = 1 /\ swr = 0 /\ cache_errors = FALSE
    /\ r_call = RetryIdle(2, 1, 2, {"Exception"})
    /\ a_call = AuthIdle(TRUE, {"admin"}, {}, FALSE, "", TRUE, TRUE)
    /\ v_call = VersionIdle([operator |-> ">=", version |-> <<1, 2>>], "", FALSE)
    /\ d_call = DeprecatedIdle("", "", "", TRUE)
    /\ t_call = TimeoutIdle(1, "", TRUE)
    /\ v_decl = [raw |-> <<>>, pc |-> "none", operator |-> <<>>,
                 required_version |-> <<>>]
    /\ cls = [members |-> <<>>, visited |-> <<>>, endpoints |-> <<>>]

SpecPipeline == InitPipeline /\ [][NextPipeline]_vars

\* ------------------------------------------------ claims: rate limiter
Admitted(k) == SelectSeq(rl_log[k], LAMBDA r : r.allowed)

\* C1: after any sequence of checks a bucket holds at most `limit` timestamps,
\* all of them inside the trailing window (now - window, now] or older only
\* because the clock moved on; and any limit+1 admissions on one key span at
\* least `window` seconds, so no trailing window ever contains more than
\* `limit` admissions.
C1_BucketNeverOverLimit ==
    \A k \in RLKeys :
        /\ Len(rl_store[k]) <= limit
        /\ Cardinality({i \in DOMAIN rl_store[k] :
                            rl_store[k][i] > now - WindowTicks}) <= limit
        /\ LET adm == Admitted(k)
           IN  \A i, j \in DOMAIN adm :
                   j - i >= limit => adm[j].t - adm[i].t >= WindowTicks

C1_Witness ==
    \E k \in RLKeys :
        /\ Len(rl_store[k]) = limit
        /\ Len(Admitted(k)) > limit
        /\ \E i \in DOMAIN rl_log[k] : ~rl_log[k][i].allowed

\* C2: on a fresh key the first `limit` checks made inside the window of the
\* first one are admitted; check number limit+1, still inside that window, is
\* denied with remaining = 0 and reset >= 1; and the first check made once the
\* clock is past first + window is admitted.
C2_FillDenyReadmit ==
    \A k \in RLKeys :
        LET lg == rl_log[k]
        IN  /\ \A i \in DOMAIN lg :
                   (i <= limit /\ lg[i].t - lg[1].t < WindowTicks) => lg[i].allowed
            /\ (Len(lg) >= limit + 1 /\ lg[limit + 1].t - lg[1].t < WindowTicks)
                   => /\ ~lg[limit + 1].allowed
                      /\ lg[limit + 1].remaining = 0
                      /\ lg[limit + 1].reset >= 1
            /\ \A j \in DOMAIN lg :
                   (/\ j > 1
                    /\ lg[j].t - lg[1].t > WindowTicks
                    /\ \A i \in 1..(j - 1) : lg[i].t - lg[1].t < WindowTicks)
                   => lg[j].allowed

C2_Witness ==
    \E k \in RLKeys :
        LET lg == rl_log[k]
        IN  /\ Len(lg) = limit + 2
            /\ \A i \in 1..limit : lg[i].allowed
            /\ ~lg[limit + 1].allowed
            /\ lg[limit + 1].t - lg[1].t < WindowTicks
            /\ lg[limit + 2].t - lg[1].t > WindowTicks
            /\ lg[limit + 2].allowed

\* C3: when exactly one slot is free in the bucket and two checks of that key
\* overlap, at most one of the two is admitted.
C3_LastSlotAdmitsOne ==
    ((\A t \in Threads : t_pc[t] = "done") /\ overlap /\ raceFree = 1)
        => Cardinality({t \in Threads : t_allowed[t]}) <= 1

\* ---------------------------------------------------------- claims: cache
\* a request the wrapper has answered after resolving a cache key
Served(t) == c_task[t].pc = "done" /\ ~c_task[t].bypass

Count(item, list) == Cardinality({i \in DOMAIN list : list[i] = item})
IsPermutation(q1, q2) ==
    /\ Len(q1) = Len(q2)
    /\ \A i \in DOMAIN q1 : Count(q1[i], q1) = Count(q1[i], q2)

\* C4 as stated: with ttl > 0, a request that finds an entry with
\* now < expiresAt is served the stored payload and ETag without running the
\* handler; one with expiresAt <= now < staleUntil is served the stored payload
\* without running the handler; one that finds no entry, or now >= staleUntil,
\* runs the handler.
C4_HitServesStoredPayload ==
    \A t \in Tasks :
        LET d == c_task[t]
            e == d.existing
        IN  (Served(t) /\ ttl > 0) =>
              /\ (e.present /\ d.at < e.expires_at)
                    => /\ d.calls = 0
                       /\ d.response.body /\ d.response.payload = e.value
                       /\ d.response.has_etag /\ d.response.etag = e.etag
              /\ (e.present /\ e.expires_at <= d.at /\ d.at < e.stale_until)
                    => /\ d.calls = 0
                       /\ d.response.body /\ d.response.payload = e.value
              /\ (~e.present \/ d.at >= e.stale_until) => d.calls = 1

\* C4 amended: as above, except that a hit whose request carries an
\* If-None-Match equal to the entry's ETag is answered 304 with the ETag and
\* no payload; every other hit carries the stored payload, status and ETag.
C4_HitServesEntry ==
    \A t \in Tasks :
        LET d == c_task[t]
            e == d.existing
            conditional == d.request.if_none_match.present
                            /\ d.request.if_none_match.value = e.etag
            fromEntry ==
                /\ d.calls = 0
                /\ d.response.has_etag /\ d.response.etag = e.etag
                /\ IF conditional
                   THEN d.response.status = 304 /\ ~d.response.body
                   ELSE /\ d.response.body /\ d.response.payload = e.value
                        /\ d.response.status = e.status_code
        IN  (Served(t) /\ ttl > 0) =>
              /\ (e.present /\ d.at < e.expires_at) => fromEntry
              /\ (e.present /\ e.expires_at <= d.at /\ d.at < e.stale_until) => fromEntry
              /\ (~e.present \/ d.at >= e.stale_until) => d.calls = 1

C4_Witness ==
    \E t \in Tasks :
        LET d == c_task[t]
        IN  /\ Served(t) /\ ttl > 0
            /\ d.existing.present
            /\ d.existing.expires_at <= d.at /\ d.at < d.existing.stale_until
            /\ d.calls = 0
            /\ d.response.body /\ d.response.payload = d.existing.value

\* C5: with the default key, a request resolves to the same key as the same
\* request with its query pairs in any other order; so when the store holds a
\* fresh entry written for such a reordered request, the request is a hit and
\* the handler is not run.
C5_QueryOrderSameKey ==
    \A t \in Tasks :
        LET d == c_task[t]
        IN  Served(t) =>
              \A q \in QueryLists :
                  IsPermutation(q, d.request.query) =>
                      LET twin == ResolveKey([d.request EXCEPT !.query = q])
                      IN  /\ twin = d.key
                          /\ (d.before[twin].present /\ d.before[twin].expires_at > d.at)
                                => (d.calls = 0 /\ d.sets = 0)

C5_Witness ==
    \E t \in Tasks :
        LET d == c_task[t]
        IN  /\ Served(t) /\ d.calls = 0
            /\ c_writer[d.key].known
            /\ c_writer[d.key].query # d.request.query
            /\ IsPermutation(c_writer[d.key].query, d.request.query)

\* C6: after running the handler the wrapper stores an entry only if the
\* status is 200, 203 or 204, or cache_errors is set; for any other response
\* the store is unchanged and the response returned is the handler's own.
C6_StoresOnlyCacheable ==
    \A t \in Tasks :
        LET d == c_task[t]
            cacheable == StatusOf(d.result) \in {200, 203, 204} \/ cache_errors
        IN  (Served(t) /\ d.calls = 1) =>
              /\ (d.sets = 1 \/ d.changed) => cacheable
              /\ ~cacheable => (d.sets = 0 /\ ~d.changed /\ d.response = d.result)

C6_Witness ==
    \E t \in Tasks :
        LET d == c_task[t]
        IN  /\ Served(t) /\ d.calls = 1
            /\ d.result.status = 201 /\ ~cache_errors
            /\ d.response = d.result
            /\ c_store = d.before

\* C7: with ttl = 0 a request runs the handler exactly once and its wrapper
\* makes no get and no set on the backend, whatever the store holds.
C7_TtlZeroBypasses ==
    ttl = 0 =>
        \A t \in Tasks :
            LET d == c_task[t]
            IN  /\ d.gets = 0 /\ d.sets = 0 /\ ~d.changed
                /\ d.pc = "done" => (d.calls = 1 /\ d.response = d.result)

C7_Witness ==
    /\ ttl = 0
    /\ \E t \in Tasks :
           LET d == c_task[t]
           IN  /\ d.pc = "done" /\ d.request.found /\ d.calls = 1
               /\ c_store[ResolveKey(d.request)].present
               /\ c_store = d.before

\* C8: a request whose If-None-Match equals the ETag of the entry for its key
\* gets a 304 with no payload, also when that entry is the one the request
\* itself has just computed and written.
C8_MatchingEtagGets304 ==
    \A t \in Tasks :
        LET d == c_task[t]
            inm == d.request.if_none_match
            hitMatch == d.calls = 0 /\ inm.present /\ inm.value = d.existing.etag
            writeMatch == d.sets = 1 /\ inm.present
                           /\ inm.value = ComputeEtag(d.result.payload)
        IN  (Served(t) /\ (hitMatch \/ writeMatch))
                => (d.response.status = 304 /\ ~d.response.body)

\* C9: invalidate(pattern) removes exactly the stored keys matching the
\* pattern, leaves the other entries as they were and returns how many it
\* removed; with no matching key it returns 0 and changes nothing; called
\* again at once with the same pattern it returns 0.
C9_InvalidateExact ==
    c_inv.calls > 0 =>
        LET matching == {k \in CacheKeys :
                            c_inv.before[k].present /\ FnMatch(k, c_inv.pattern)}
            justNow == c_prev = c_inv.pattern
        IN  /\ c_inv.count = Cardinality(matching)
            /\ justNow => c_store = [k \in CacheKeys |->
                              IF k \in matching THEN NoEntry ELSE c_inv.before[k]]
            /\ (matching = {}) => (c_inv.count = 0 /\ (justNow => c_store = c_inv.before))
            /\ c_inv.repeat => c_inv.count = 0

C9_Witness ==
    /\ c_inv.calls > 0
    /\ c_prev = c_inv.pattern
    /\ c_inv.count = 1
    /\ \E k \in CacheKeys : c_store[k].present /\ ~FnMatch(k, c_inv.pattern)

\* C10: while an invalidate is under way the store is never in a state, open
\* to the other users of the backend, where some of the keys that matched at
\* the start of the scan are gone and others are still there.
C10_InvalidateAtomic ==
    i_pc = "pop" =>
        ~\E k1, k2 \in i_matched :
            /\ k1 \notin i_pending /\ ~c_store[k1].present
            /\ k2 \in i_pending /\ c_store[k2].present

\* ------------------------------------------------------- claims on retry
RECURSIVE Pow(_, _)
Pow(b, n) == IF n = 0 THEN 1 ELSE b * Pow(b, n - 1)

\* delay + delay*backoff + ... : the waits before invocations 2 .. f+1
RECURSIVE SumOfDelays(_, _, _)
SumOfDelays(delay, backoff, f) ==
    IF f = 0 THEN 0
    ELSE SumOfDelays(delay, backoff, f - 1) + delay * Pow(backoff, f - 1)

\* C11: whatever the configuration and whatever the handler does, one call
\* through the retry wrapper invokes the handler at most `attempts` times.
C11_AttemptsBounded == r_call.calls <= r_call.attempts

C11_Witness ==
    /\ r_call.attempts = MaxAttempts
    /\ r_call.calls = MaxAttempts
    /\ r_call.pc = "done"
    /\ r_call.outcome.kind = "raise"

\* C12: a call that ends with the handler's success after f failed
\* invocations has made exactly f+1 invocations, returns the success value,
\* has slept delay * backoff^(k-2) before invocation k (k = 2 .. f+1), and has
\* waited the sum of these f delays in all: delay + delay*backoff for f = 2.
C12_FailThenSucceed ==
    LET f == Len(r_call.raised)
    IN  (r_call.pc = "done" /\ r_call.outcome.kind = "return") =>
            /\ f < r_call.attempts
            /\ r_call.calls = f + 1
            /\ r_call.outcome.value = "ok"
            /\ Len(r_call.sleeps) = f
            /\ \A k \in 2..(f + 1) :
                  r_call.sleeps[k - 1] = r_call.delay * Pow(r_call.backoff, k - 2)
            /\ r_call.waited = SumOfDelays(r_call.delay, r_call.backoff, f)
            /\ f = 2 => r_call.waited = r_call.delay + r_call.delay * r_call.backoff

C12_Witness ==
    /\ r_call.pc = "done"
    /\ r_call.outcome.kind = "return"
    /\ r_call.attempts = 3
    /\ Len(r_call.raised) = 2
    /\ r_call.delay = 1
    /\ r_call.backoff = 2
    /\ r_call.waited = 3

\* C13: when all `attempts` invocations (attempts >= 1) failed with a
\* retryable error, the caller gets the error object the last invocation
\* raised: same class, same identity, no wrapper around it.
C13_LastErrorPropagates ==
    ( /\ r_call.pc = "done"
      /\ r_call.attempts >= 1
      /\ Len(r_call.raised) = r_call.attempts
      /\ \A i \in 1..Len(r_call.raised) :
            IsInstance(r_call.raised[i].type, r_call.exceptions) )
    => r_call.outcome = Raised(r_call.raised[r_call.attempts])

C13_Witness ==
    /\ r_call.pc = "done"
    /\ r_call.attempts = 3
    /\ r_call.exceptions = {"Exception"}
    /\ Len(r_call.raised) = 3
    /\ r_call.raised[1].type = "KeyError"
    /\ r_call.raised[3].type = "ConnectionError"
    /\ r_call.outcome.kind = "raise"

\* C14: an error of a class outside the configured exception classes ends the
\* call at once: it is the last thing the handler did, the caller gets that
\* error, and no sleep and no invocation follow it, however many attempts
\* are left.
C14_NonRetryablePropagatesAtOnce ==
    \A i \in 1..Len(r_call.raised) :
        (r_call.raised[i].type = "KeyError"
            /\ r_call.exceptions = {"ConnectionError"})
        => /\ i = Len(r_call.raised)
           /\ r_call.pc = "done"
           /\ r_call.outcome = Raised(r_call.raised[i])
           /\ r_call.calls = i
           /\ Len(r_call.sleeps) = i - 1

C14_Witness ==
    /\ r_call.attempts = 3
    /\ r_call.exceptions = {"ConnectionError"}
    /\ Len(r_call.raised) = 2
    /\ r_call.raised[2].type = "KeyError"
    /\ r_call.pc = "done"

\* -------------------------------------------------------- claims on auth
\* C15: with auth enabled and no delegate registered, a request ends in a
\* 500 error and the handler is not invoked, whatever the roles and scopes.
C15_NoDelegateIs500 ==
    (a_call.pc # "idle" /\ a_call.request.present
        /\ a_call.enabled /\ ~a_call.registered)
    => /\ a_call.pc = "done"
       /\ a_call.outcome.kind = "raise"
       /\ a_call.outcome.status = 500
       /\ a_call.calls = 0
       /\ a_call.delegate_calls = 0

C15_Witness ==
    /\ a_call.pc = "done"
    /\ a_call.request.present
    /\ a_call.enabled /\ ~a_call.registered
    /\ a_call.roles = {} /\ a_call.scopes = {}

\* C16: with auth enabled and a delegate registered, a request for which the
\* delegate returns False gets a 403 and the handler is not invoked; a
\* request for which the delegate returns True reaches the handler.
C16_DelegateDecides ==
    /\ a_call.result = "False" =>
            /\ a_call.pc = "done"
            /\ a_call.outcome.kind = "raise"
            /\ a_call.outcome.status = 403
            /\ a_call.calls = 0
    /\ a_call.result = "True" =>
            \/ a_call.pc = "handler"
            \/ a_call.pc = "done" /\ a_call.calls = 1

C16_Witness ==
    /\ a_call.result = "False"
    /\ a_call.pc = "done"
    /\ a_call.request.authorization = ""
    /\ a_call.custom_error # ""
    /\ a_call.outcome.detail = a_call.custom_error

\* C17: once the delegate has raised an error, the request ends in a 500,
\* never in a 403, and the handler is not invoked.
C17_DelegateErrorIs500 ==
    (Len(a_call.delegate_raised) > 0 /\ a_call.pc # "delegate2")
    => /\ a_call.pc = "done"
       /\ a_call.outcome.kind = "raise"
       /\ a_call.outcome.status = 500
       /\ a_call.calls = 0

\* C18: with auth(False) the handler is invoked for every request, with or
\* without credentials, and the delegate is never called.
C18_DisabledAuthSkipsDelegate ==
    (a_call.pc # "idle" /\ ~a_call.enabled)
    => /\ a_call.delegate_calls = 0
       /\ \/ a_call.pc = "handler"
          \/ a_call.pc = "done" /\ a_call.calls = 1

C18_Witness ==
    /\ ~a_call.enabled
    /\ a_call.registered
    /\ a_call.request.present
    /\ a_call.request.authorization = ""
    /\ a_call.pc = "done"
    /\ a_call.calls = 1

\* ----------------------------------------------------- claims on version
\* C19: a request without X-API-Version header gets, under strict
\* versioning, the 400 response "API version required" and the handler is
\* not invoked; without strict versioning it reaches the handler and no
\* constraint check is made.
C19_MissingHeader ==
    (v_call.pc # "idle" /\ v_call.request.present
        /\ v_call.request.header = "absent")
    => IF v_call.strict_versioning
       THEN /\ v_call.pc = "done"
            /\ v_call.outcome.status = 400
            /\ v_call.outcome.error = "API version required"
            /\ v_call.calls = 0
       ELSE /\ v_call.checks = 0
            /\ \/ v_call.pc = "handler"
               \/ v_call.pc = "done" /\ v_call.calls = 1
                    /\ v_call.outcome.kind = "return"
                    /\ v_call.outcome.status = 200

C19_Witness ==
    /\ v_call.pc = "done"
    /\ v_call.request.present
    /\ v_call.request.header = "absent"
    /\ v_call.strict_versioning
    /\ v_call.outcome.status = 400

\* C20: a request whose X-API-Version does not satisfy the constraint gets
\* the 400 response "API version incompatible" whose body holds the client's
\* version and the constraint, and the handler is not invoked.
C20_IncompatibleVersion ==
    (v_call.pc # "idle" /\ v_call.request.present
        /\ v_call.request.header = "version"
        /\ ~CheckVersion(v_call.request.version, Operator(v_call.constraint),
                         v_call.constraint.version))
    => /\ v_call.pc = "done"
       /\ v_call.outcome.status = 400
       /\ v_call.outcome.error = "API version incompatible"
       /\ v_call.outcome.your_version = v_call.request.version
       /\ v_call.outcome.required = v_call.constraint
       /\ v_call.calls = 0

C20_Witness ==
    /\ v_call.pc = "done"
    /\ v_call.request.version = <<1>>
    /\ v_call.constraint = [operator |-> ">=", version |-> <<1, 2>>]
    /\ v_call.message # ""
    /\ v_call.outcome.status = 400
    /\ v_call.outcome.your_version = <<1>>

\* C21: under version(..., deprecated=True) every request that passes the
\* version check gets a response carrying Deprecation: true, and Sunset when
\* one is configured, whatever kind of value the handler returns.  The code
\* sets the headers only on a result that has a `headers` attribute, so a
\* handler returning a dict answers without them.
C21_DeprecationOnEveryResult ==
    (v_call.deprecated /\ v_call.pc = "done" /\ v_call.calls = 1)
    => /\ <<"Deprecation", "true">> \in v_call.outcome.headers
       /\ v_call.sunset # ""
            => <<"Sunset", v_call.sunset>> \in v_call.outcome.headers

\* the part of C21 the code keeps: a response object gets the headers
C21_HeadersOnResponseObjects ==
    (v_call.deprecated /\ v_call.pc = "done" /\ v_call.calls = 1
        /\ v_call.outcome.type = "JSONResponse")
    => /\ <<"Deprecation", "true">> \in v_call.outcome.headers
       /\ v_call.sunset # ""
            => <<"Sunset", v_call.sunset>> \in v_call.outcome.headers

\* a version of at most three components with the missing ones as 0
Padded(v) ==
    <<IF Len(v) >= 1 THEN v[1] ELSE 0,
      IF Len(v) >= 2 THEN v[2] ELSE 0,
      IF Len(v) >= 3 THEN v[3] ELSE 0>>

Precedes(a, b) ==
    \/ a[1] < b[1]
    \/ a[1] = b[1] /\ a[2] < b[2]
    \/ a[1] = b[1] /\ a[2] = b[2] /\ a[3] < b[3]

\* C22: for every client version, required version and operator the check
\* passes exactly when the comparison of the components as integers, a
\* missing trailing component being 0, satisfies the operator; so 1.2
\* equals 1.2.0 and 1.10 is greater than 1.9.
C22_NumericComparison ==
    (v_call.pc # "idle" /\ v_call.request.present
        /\ v_call.request.header = "version")
    => LET a == Padded(v_call.request.version)
           b == Padded(v_call.constraint.version)
           op == v_call.constraint.operator
           expected ==
               CASE op = ">=" -> ~Precedes(a, b)
                 [] op = "<=" -> ~Precedes(b, a)
                 [] op = ">" -> Precedes(b, a)
                 [] op = "<" -> Precedes(a, b)
                 [] op = "!=" -> a # b
                 [] OTHER -> a = b
       IN  /\ v_call.checks = 1
           /\ expected <=> (v_call.pc = "handler" \/ v_call.calls = 1)
           /\ ~expected <=> (v_call.pc = "done" /\ v_call.calls = 0
                                /\ v_call.outcome.status = 400)

C22_Witness ==
    /\ v_call.pc = "done"
    /\ v_call.calls = 1
    /\ v_call.request.version = <<1, 10>>
    /\ v_call.constraint = [operator |-> ">", version |-> <<1, 9>>]

\* C30: at a check, a recorded timestamp is purged only if it is older than
\* now - window; one exactly window old is still inside the window and still
\* counts, so with limit 1 a check made exactly one window after an admitted
\* one is denied.  The code keeps a timestamp only if it is strictly newer
\* than now - window, so that check is admitted.
C30_BoundaryStillCounts ==
    \A k \in DOMAIN rl_log :
        \A i, j \in DOMAIN rl_log[k] :
            (limit = 1 /\ i < j /\ rl_log[k][i].allowed
                /\ rl_log[k][j].t = rl_log[k][i].t + WindowTicks)
            => ~rl_log[k][j].allowed

\* C24: the deprecation wrapper invokes the handler on every request, and
\* every response leaving it carries Deprecation: true, plus Sunset and the
\* alternative when configured, whether the handler returns a response
\* object, a plain value, or fails.  The code sets the headers only on a
\* returned object that has a `headers` attribute: a plain value and a raised
\* error leave without them.
C24_DeprecationOnEveryOutcome ==
    d_call.pc = "done"
    => /\ d_call.calls = 1
       /\ <<"Deprecation", "true">> \in d_call.outcome.headers
       /\ d_call.sunset # ""
            => <<"Sunset", d_call.sunset>> \in d_call.outcome.headers
       /\ d_call.alternative # ""
            => <<"X-Deprecation-Alternative", d_call.alternative>>
                    \in d_call.outcome.headers

\* the part of C24 the code keeps: the handler is always invoked, once, and a
\* response object gets the headers
C24_HeadersOnResponseObjects ==
    /\ d_call.pc # "idle" => d_call.calls = 1 /\ d_call.logged = 1
    /\ (d_call.pc = "done" /\ d_call.outcome.kind = "return"
            /\ d_call.outcome.type \in {"JSONResponse", "Response"})
       => /\ <<"Deprecation", "true">> \in d_call.outcome.headers
          /\ d_call.sunset # ""
               => <<"Sunset", d_call.sunset>> \in d_call.outcome.headers
          /\ d_call.alternative # ""
               => <<"X-Deprecation-Alternative", d_call.alternative>>
                       \in d_call.outcome.headers

\* C25: an async handler under timeout(seconds=T) that has not completed
\* when T has elapsed is cancelled and the caller gets the 504 with the
\* configured message, never a late result; a handler that completes before
\* then has its result returned unchanged.
C25_TimeoutCancels ==
    t_call.is_async
    => /\ t_call.pc = "awaiting" => now - t_call.started <= t_call.seconds
       /\ (t_call.pc = "done" /\ t_call.fired)
          => /\ t_call.handler = "cancelled"
             /\ t_call.ended - t_call.started >= t_call.seconds
             /\ t_call.outcome.kind = "raise"
             /\ t_call.outcome.type = "HTTPException"
             /\ t_call.outcome.status = 504
             /\ t_call.outcome.detail = t_call.error_message
       /\ (t_call.pc = "done" /\ t_call.outcome.kind = "return")
          => /\ t_call.handler = "returned"
             /\ t_call.ended - t_call.started <= t_call.seconds
       /\ (t_call.pc = "done" /\ t_call.handler = "returned")
          => /\ ~t_call.fired
             /\ t_call.outcome.kind = "return"
             /\ t_call.outcome.type = "dict"

C25_Witness ==
    /\ t_call.is_async
    /\ t_call.pc = "done"
    /\ t_call.fired
    /\ t_call.calls = 1
    /\ t_call.ended - t_call.started = t_call.seconds
    /\ t_call.outcome.status = 504
    /\ t_call.outcome.detail = "Operation timed out"

\* a version text made of digit runs separated by single dots
IsDottedNumeric(text) ==
    /\ text # <<>>
    /\ \A i \in DOMAIN text :
          \/ text[i] \in {"0", "1", "2", "3", "4", "5", "6", "7", "8", "9"}
          \/ text[i] = "." /\ 1 < i /\ i < Len(text) /\ text[i + 1] # "."

\* C23: a constraint whose version part is not a dotted numeric version is
\* rejected with a configuration error when the decorator is applied; a
\* constraint with no leading operator is accepted and treated as ==.  The
\* format pattern of the code has no end anchor, so a version part that only
\* begins with a digit, such as 1.x, is accepted.
C23_MalformedRejected ==
    /\ v_decl.pc \in {"decorated", "rejected"}
       => (v_decl.pc = "rejected"
            <=> \A k \in 0..Len(v_decl.raw) :
                    ~IsDottedNumeric(SubSeq(v_decl.raw, k + 1, Len(v_decl.raw)))
                    \/ SubSeq(v_decl.raw, 1, k)
                        \notin {<<>>, <<">", "=">>, <<"<", "=">>, <<">">>,
                                <<"<">>, <<"=", "=">>, <<"!", "=">>})
    /\ (v_decl.pc \in {"decorated", "rejected"} /\ IsDottedNumeric(v_decl.raw))
       => /\ v_decl.pc = "decorated"
          /\ v_decl.operator = <<"=", "=">>
          /\ v_decl.required_version = v_decl.raw

\* the part of C23 the code keeps: what begins with a digit after the
\* optional operator is accepted, everything else is rejected, and a
\* constraint without an operator means ==
C23_LeadingDigitChecked ==
    /\ v_decl.pc = "decorated"
       => /\ v_decl.required_version # <<>>
          /\ v_decl.required_version[1] \in {"1"}
          /\ v_decl.raw \in {v_decl.required_version,
                             v_decl.operator \o v_decl.required_version}
    /\ (v_decl.pc \in {"decorated", "rejected"} /\ IsDottedNumeric(v_decl.raw))
       => /\ v_decl.pc = "decorated"
          /\ v_decl.operator = <<"=", "=">>
          /\ v_decl.required_version = v_decl.raw

\* C27: an identifier verb_w1_..._wn_by_p1_by_..._pm with a known verb gives
\* the upper-cased verb and the path /w1/.../wn/{p1}/.../{pm}: every word
\* before the first _by_ is a segment of its own, every part after a _by_ is
\* one placeholder that keeps its underscores, in order; a bare verb gives /.
C27_DerivedRoute ==
    \A i \in DOMAIN cls.visited :
        LET m == cls.visited[i]
            expected ==
                m.words \o [j \in DOMAIN m.params |->
                                <<"{">> \o m.params[j] \o <<"}">>]
        IN  (m.verb # <<>> /\ m.callable)
            => /\ Len(cls.endpoints) = 1
               /\ cls.endpoints[1].http_method = <<"G", "E", "T">>
               /\ cls.endpoints[1].sub_path =
                    IF m.words = <<>> /\ m.params = <<>> THEN <<"/">>
                    ELSE <<"/">> \o Join(expected, <<"/">>)

C27_Witness ==
    /\ Len(cls.visited) = 1
    /\ cls.visited[1].name
        = <<"g", "e", "t", "_", "a", "_", "i", "d", "_", "b", "y", "_",
            "i", "_", "d", "_", "b", "y", "_", "i", "d">>
    /\ Len(cls.endpoints) = 1
    /\ cls.endpoints[1].sub_path
        = <<"/", "a", "/", "i", "d", "/", "{", "i", "_", "d", "}", "/",
            "{", "i", "d", "}">>

\* C28: a class member becomes an endpoint exactly if it is callable, its
\* name does not start with an underscore, and its lower-cased name is a
\* known verb or starts with that verb and an underscore; every other member
\* is skipped without an error and contributes no endpoint.
C28_EndpointMembers ==
    LET qualifies(m) ==
            /\ m.callable
            /\ m.name[1] # "_"
            /\ \E verb \in HTTP_METHODS :
                  \/ Lower(m.name) = verb
                  \/ StartsWith(Lower(m.name), verb \o <<"_">>)
    IN  /\ Len(cls.endpoints)
            = Cardinality({i \in DOMAIN cls.visited : qualifies(cls.visited[i])})
        /\ \A i \in DOMAIN cls.visited :
              qualifies(cls.visited[i])
              <=> \E e \in DOMAIN cls.endpoints :
                      cls.endpoints[e].name = cls.visited[i].name

C28_Witness ==
    /\ Len(cls.visited) = 1
    /\ cls.visited[1].name = <<"g", "e", "t", "a">>
    /\ cls.visited[1].callable
    /\ cls.endpoints = <<>>

\* C26: when a timeout wrapper encloses a retry wrapper and the timeout
\* fires while retry waits in a backoff delay, the wait is cancelled: no
\* handler invocation is made after the timeout has fired, and the caller
\* receives the 504.
C26_BackoffCancelled ==
    t_call.fired
    => /\ r_call.calls = t_call.inner_calls
       /\ r_call.pc \notin {"calling", "sleeping"}
       /\ t_call.inner_pc = "sleeping"
            => /\ r_call.pc = "cancelled"
               /\ r_call.waited = 0
               /\ r_call.outcome.kind = "none"
       /\ t_call.outcome.kind = "raise"
       /\ t_call.outcome.status = 504
       /\ c_task["r1"].pc = "done" => c_task["r1"].response.kind = "raise"

C26_Witness ==
    /\ t_call.fired
    /\ t_call.inner_pc = "sleeping"
    /\ r_call.pc = "cancelled"
    /\ r_call.calls = 1
    /\ r_call.sleeps = <<1>>
    /\ t_call.outcome.status = 504
    /\ c_task["r1"].pc = "done"

\* C29: with the wrappers composed in the order rate limit, version, auth,
\* cache, timeout, retry, handler, a request rejected by rate limit, version
\* or auth invokes the handler zero times, is never retried and leaves the
\* cache store unchanged; a cache hit invokes the handler, the timeout and
\* the retry logic zero times.
C29_RejectBeforeWork ==
    LET log == rl_log[RaceKey]
        noCache == /\ c_task["r1"].pc = "idle"
                   /\ \A k \in CacheKeys : ~c_writer[k].known
        noInner == /\ t_call.pc = "idle" /\ t_call.calls = 0
                   /\ r_call.pc = "idle" /\ r_call.calls = 0
                   /\ r_call.sleeps = <<>>
    IN  /\ (log = <<>> \/ ~log[Len(log)].allowed)
           => v_call.pc = "idle" /\ a_call.pc = "idle" /\ noCache /\ noInner
        /\ (v_call.pc = "done" /\ v_call.outcome.status = 400)
           => a_call.pc = "idle" /\ noCache /\ noInner
        /\ (a_call.pc = "done" /\ a_call.outcome.status = 403)
           => noCache /\ noInner
        /\ (c_task["r1"].pc # "idle" /\ ~c_task["r1"].bypass
                /\ c_task["r1"].existing.present
                /\ c_task["r1"].existing.stale_until > c_task["r1"].at)
           => c_task["r1"].pc = "done" /\ c_task["r1"].calls = 0 /\ noInner

C29_Witness ==
    /\ Len(rl_log[RaceKey]) = 1
    /\ c_task["r1"].pc = "done"
    /\ c_task["r1"].existing.present
    /\ c_task["r1"].calls = 0
    /\ r_call.calls = 0
    /\ t_call.pc = "idle"
    /\ v_call.pc = "done"
    /\ v_call.calls = 1

\* C31: a denied check records nothing: apart from the purge of expired
\* timestamps the bucket after a denial is the bucket before it, so however
\* many requests are denied, a check is admitted as soon as fewer than
\* `limit` admitted timestamps are left in its window.
C31_DenialRecordsNothing ==
    \A k \in DOMAIN rl_log :
        LET lg == rl_log[k]
        IN  \A j \in DOMAIN lg :
                /\ ~lg[j].allowed
                   => /\ lg[j].after
                            = SelectSeq(lg[j].before,
                                        LAMBDA ts : ts > lg[j].t - WindowTicks)
                      /\ \A n \in DOMAIN lg[j].after :
                            \E i \in 1..(j - 1) :
                                lg[i].allowed /\ lg[i].t = lg[j].after[n]
                /\ lg[j].allowed
                   <=> Cardinality({i \in 1..(j - 1) :
                                        /\ lg[i].allowed
                                        /\ lg[i].t > lg[j].t - WindowTicks}) < limit

C31_Witness ==
    \E k \in DOMAIN rl_log :
        LET lg == rl_log[k]
        IN  \E i, j, m \in DOMAIN lg :
                /\ i < j /\ j < m
                /\ ~lg[i].allowed /\ ~lg[j].allowed
                /\ lg[i].t < lg[j].t
                /\ lg[m].allowed
                /\ lg[m].before # <<>>
                /\ lg[m].t = lg[m].before[1] + WindowTicks + 1

\* C32: an admitted check reports remaining = max(0, limit - count - 1) with
\* count the size of the bucket after the purge and before the new timestamp
\* is recorded; so successive admissions inside one window report limit-1,
\* limit-2, ..., 0, and remaining is never negative.
C32_RemainingCountsDown ==
    \A k \in DOMAIN rl_log :
        LET lg == rl_log[k]
        IN  \A j \in DOMAIN lg :
                /\ lg[j].remaining >= 0
                /\ lg[j].allowed
                   => LET count ==
                              Cardinality({n \in DOMAIN lg[j].before :
                                  lg[j].before[n] > lg[j].t - WindowTicks})
                      IN  /\ lg[j].remaining
                                = (IF limit - count - 1 > 0
                                   THEN limit - count - 1 ELSE 0)
                          /\ Len(lg[j].after) = count + 1
                /\ (j <= limit /\ lg[j].t - lg[1].t < WindowTicks)
                   => lg[j].remaining = limit - j

C32_Witness ==
    \E k \in DOMAIN rl_log :
        /\ limit = 2
        /\ Len(rl_log[k]) >= 3
        /\ rl_log[k][1].allowed /\ rl_log[k][1].remaining = 1
        /\ rl_log[k][2].allowed /\ rl_log[k][2].remaining = 0
        /\ ~rl_log[k][3].allowed /\ rl_log[k][3].remaining = 0

\* C33: on a denial the reset value is the time until the oldest timestamp
\* still in the bucket leaves the window, oldest + window - now truncated to
\* whole seconds, and never less than 1; the 429 response carries the same
\* value as Retry-After.
C33_ResetOnDenial ==
    \A k \in DOMAIN rl_log :
        \A j \in DOMAIN rl_log[k] :
            LET e == rl_log[k][j]
            IN  ~e.allowed
                => /\ e.after # <<>>
                   /\ LET oldest ==
                              CHOOSE ts \in {e.after[n] : n \in DOMAIN e.after} :
                                  \A n \in DOMAIN e.after : ts <= e.after[n]
                          whole == (oldest + WindowTicks - e.t) \div TicksPerSecond
                      IN  /\ oldest + WindowTicks - e.t > 0
                          /\ e.reset = (IF whole >= 1 THEN whole ELSE 1)
                   /\ e.reset >= 1
                   /\ e.status = 429
                   /\ e.retry_after = e.reset

C33_Witness ==
    \E k \in DOMAIN rl_log :
        \E j \in DOMAIN rl_log[k] :
            /\ window = 2
            /\ ~rl_log[k][j].allowed
            /\ rl_log[k][j].t = rl_log[k][j].after[1] + 1
            /\ rl_log[k][j].reset = 1
            /\ rl_log[k][j].retry_after = 1

C35_StaleNotBeforeExpiry ==
    /\ ttl >= 0
    /\ \A k \in CacheKeys :
          c_writer[k].known
          => /\ c_store[k].present
             /\ c_store[k].stale_until >= c_store[k].expires_at
             /\ c_store[k].stale_until - c_store[k].expires_at
                    = (IF swr > 0 THEN swr ELSE 0) * TicksPerSecond

C35_Witness ==
    \E k \in CacheKeys :
        /\ c_writer[k].known
        /\ swr = -1
        /\ ttl = 1
        /\ c_store[k].stale_until = c_store[k].expires_at

\* C36 as stated: an entry written at time t is served to every lookup made
\* before t + ttl + stale_while_revalidate and to none made from then on.
C36_ServedUntilTtlPlusSwr ==
    \A t \in Tasks :
        LET d == c_task[t]
            stop == d.writer.written + (ttl + swr) * TicksPerSecond
        IN  (Served(t) /\ ttl > 0 /\ d.writer.known)
                => (d.calls = 0 <=> d.at < stop)

\* the step in which request t is answered from the store
HitStep(t) ==
    /\ c_task'[t] # c_task[t]
    /\ c_task'[t].pc = "done" /\ ~c_task'[t].bypass
    /\ c_task'[t].gets = 1 /\ c_task'[t].calls = 0

\* C36 amended: a hit, fresh or stale, leaves every entry of the store as it
\* was; and an entry whose writing request looked the key up at time t0 keeps
\* stale_until = t0 + ttl + max(stale_while_revalidate, 0) for as long as it
\* is in the store, and is served exactly to the lookups made before then.
C36_HitLeavesStore ==
    /\ [][\A t \in Tasks : HitStep(t) => UNCHANGED <<c_store, c_writer>>]_vars
    /\ [](\A k \in CacheKeys :
              c_writer[k].known
                  => /\ c_store[k].expires_at
                            = c_writer[k].at + ttl * TicksPerSecond
                     /\ c_store[k].stale_until
                            = c_writer[k].at
                                + (ttl + IF swr > 0 THEN swr ELSE 0) * TicksPerSecond)
    /\ [](\A t \in Tasks :
              LET d == c_task[t]
                  stop == d.writer.at
                            + (ttl + IF swr > 0 THEN swr ELSE 0) * TicksPerSecond
              IN  (Served(t) /\ ttl > 0 /\ d.writer.known)
                      => (d.calls = 0 <=> d.at < stop))

\* a stale hit on an entry a request wrote, the store as it was
C36_Witness ==
    \E t \in Tasks :
        LET d == c_task[t]
        IN  /\ Served(t) /\ d.writer.known /\ d.calls = 0
            /\ d.existing.expires_at <= d.at
            /\ c_store[d.key] = d.existing
            /\ c_writer[d.key] = d.writer

\* C37: when two requests for the same key have both missed, run the handler
\* and stored, the store holds for that key the whole entry of the request
\* whose handler returned last: its payload, the ETag of that payload, and the
\* times counted from that request's lookup; each request is answered with
\* its own handler's payload.
C37_LastWriterWins ==
    \A t, u \in Tasks :
        LET d == c_task[t]
            o == c_task[u]
            e == c_store[d.key]
        IN  (/\ t # u /\ d.key = o.key
             /\ d.pc = "done" /\ d.calls = 1 /\ d.sets = 1
             /\ o.pc = "done" /\ o.calls = 1 /\ o.sets = 1
             /\ d.order > o.order)
                => /\ e.present
                   /\ e.value = d.result.payload
                   /\ e.etag = ComputeEtag(d.result.payload)
                   /\ e.status_code = 200
                   /\ e.expires_at = d.at + ttl * TicksPerSecond
                   /\ e.stale_until
                        = d.at + (ttl + IF swr > 0 THEN swr ELSE 0) * TicksPerSecond
                   /\ d.response.payload = d.result.payload
                   /\ d.response.etag = ComputeEtag(d.result.payload)
                   /\ o.response.payload = o.result.payload
                   /\ o.response.etag = ComputeEtag(o.result.payload)

\* both missed while the other was under way; the request that looked up
\* first returned last, with another payload
C37_Witness ==
    \E t, u \in Tasks :
        LET d == c_task[t]
            o == c_task[u]
        IN  /\ t # u /\ d.key = o.key
            /\ d.pc = "done" /\ d.calls = 1 /\ d.sets = 1
            /\ o.pc = "done" /\ o.calls = 1 /\ o.sets = 1
            /\ ~d.existing.present /\ ~o.existing.present
            /\ d.order = 2 /\ o.order = 1
            /\ d.at < o.at
            /\ d.result.payload # o.result.payload
            /\ c_store[d.key].value = d.result.payload
            /\ c_store[d.key].expires_at < o.at + ttl * TicksPerSecond

\* C38: every call of the wrapper of a synchronous handler runs the handler
\* once and hands back what it returned or raised, without a lookup and
\* without a write: the store and its history are the same after the call,
\* whatever the ttl and whatever the store holds for the request's key.
C38_SyncNeverCaches ==
    [][\A t \in Tasks :
          c_task'[t] # c_task[t]
              => /\ c_task'[t].pc = "done"
                 /\ c_task'[t].calls = 1
                 /\ c_task'[t].gets = 0 /\ c_task'[t].sets = 0
                 /\ c_task'[t].response = c_task'[t].result
                 /\ UNCHANGED <<c_store, c_writer>>]_vars

\* a call with ttl > 0 while the backend holds a fresh entry under the key
\* the request resolves to: the handler ran and its own payload came back
C38_Witness ==
    \E t \in Tasks :
        LET d == c_task[t]
        IN  /\ d.pc = "done" /\ ttl > 0 /\ d.request.found
            /\ d.before[ResolveKey(d.request)].present
            /\ d.before[ResolveKey(d.request)].expires_at > d.at
            /\ d.calls = 1 /\ d.gets = 0
            /\ d.result.kind = "dict"
            /\ d.response.payload # d.before[ResolveKey(d.request)].value
            /\ c_store = d.before

\* C39: with auth enabled, a delegate registered and a request found, once
\* the delegate's part is over the handler is invoked exactly when the
\* deciding delegate call returned (did not raise) and what it returned is
\* not False; a returned None lets the request through like True.
C39_HandlerIffNotFalse ==
    (/\ a_call.enabled /\ a_call.registered /\ a_call.request.present
     /\ a_call.pc \in {"handler", "done"})
        => LET invoked == a_call.pc = "handler" \/ a_call.calls = 1
               returned == a_call.result \in {"True", "False", "None"}
           IN  /\ invoked <=> (returned /\ a_call.result # "False")
               /\ a_call.result = "None" => invoked
               /\ ~returned
                    => /\ Len(a_call.delegate_raised) > 0
                       /\ a_call.outcome.kind = "raise"
               /\ a_call.delegate_calls = Len(a_call.delegate_raised)
                                            + (IF returned THEN 1 ELSE 0)

\* the delegate returned None and the handler has run
C39_Witness ==
    /\ a_call.enabled /\ a_call.registered /\ a_call.request.present
    /\ a_call.result = "None"
    /\ a_call.delegate_raised = <<>>
    /\ a_call.pc = "done" /\ a_call.calls = 1 /\ a_call.is_async
    /\ a_call.outcome.kind = "return"

\* C40: a synchronous handler under timeout is never awaited under a timer
\* and never cancelled, however long it runs; when it ends the caller gets
\* the value it returned or the error it raised, an asyncio.TimeoutError of
\* its own included, and never the 504.
C40_SyncIgnoresDuration ==
    ~t_call.is_async
    => /\ t_call.pc \in {"idle", "running", "done"}
       /\ ~t_call.fired
       /\ t_call.handler # "cancelled"
       /\ t_call.pc = "done"
            => /\ t_call.calls = 1
               /\ t_call.outcome.status # 504
               /\ t_call.outcome.type # "HTTPException"
               /\ t_call.handler = "returned"
                    => t_call.outcome.kind = "return" /\ t_call.outcome.type = "dict"
               /\ t_call.handler = "raised"
                    => /\ t_call.outcome.kind = "raise"
                       /\ t_call.outcome.type \in {"ValueError", "TimeoutError"}

\* a synchronous handler that ran longer than the configured duration and
\* whose value came back
C40_Witness ==
    /\ ~t_call.is_async
    /\ t_call.pc = "done"
    /\ t_call.ended - t_call.started > t_call.seconds
    /\ t_call.handler = "returned"
    /\ t_call.outcome.kind = "return"
====
